---- MODULE Spec2Model ----
(***************************************************************************)
(* Model of the proxyscanner claim/lock protocol and queue workers:        *)
(*   models.py       Proxy (need_scan, get_for_scan, lock_for_testing,     *)
(*                   unlock_stuck), DBConfig (lock_database,               *)
(*                   unlock_database)                                      *)
(*   proxy_tester.py ProxyTester.run / execute_tests / update_stats /      *)
(*                   update_database                                       *)
(*   proxy_scrapper.py ProxyScrapper.get_proxy / update_proxy / run        *)
(*   db.py           the five queue workers and DatabaseQueue              *)
(* Time is a clock of whole seconds, `now`; timestamps are clock readings. *)
(* Every operation is modelled as it is coded.  A call of a name that the  *)
(* code base does not define, or with arguments the callee does not take,  *)
(* raises where the interpreter raises it and ends the thread when no      *)
(* handler catches it.  Storage faults (DatabaseError,                     *)
(* MaxConnectionsExceeded) are injected while `budget` lasts.              *)
(***************************************************************************)
EXTENDS Integers, Sequences, FiniteSets, TLC

\* ---------------------------------------------------------------------
\* ProxyStatus (models.py, class ProxyStatus)
UNKNOWN == 0
TESTING == 1
OK == 2
TIMEOUT == 3
ERROR == 4
BANNED == 5

\* ProxyProtocol (models.py 32-35)
HTTP == 0
SOCKS4 == 1
SOCKS5 == 2
NoProtocol == 3

Statuses == {UNKNOWN, TESTING, OK, TIMEOUT, ERROR, BANNED}

\* statuses a probe's run() assigns
ProbeStatuses == {OK, TIMEOUT, ERROR, BANNED}

\* ---------------------------------------------------------------------
\* Program constants
\* lease of the DBConfig read_lock row, seconds (models.py lock_database)
Lease == 10
\* default age_secs of need_scan / get_for_scan, seconds
ScanAge == 3600
\* default age_minutes of unlock_stuck, in seconds (15 minutes)
StuckAge == 900
\* "if error_count > 4" in every queue worker's run loop
MaxErrors == 4
RequestErrors == 4
\* thresholds passed by DatabaseQueue.__init__ to the update workers
FlushThreshold == 10
\* "qsize + len(backlog) < 1" of InsertProxyThread.update_db
InsertThreshold == 1
\* pipe capacity per tester of the fetch, update-proxy and proxytest queues
FetchFactor == 2
UpdateFactor == 10
ProxyTestFactor == 50

\* ---------------------------------------------------------------------
\* Bounds of the model
NumProxies == 2
NumTesters == 2
NumProcs == 2
NumProbes == 1
NumScrapers == 2
NumIPs == 2
NumPorts == 2
NumCredentials == 1
MaxList == 2
MaxInserts == 2
MaxText == 2
MaxTicks == 12
MaxCount == 2
MaxPushes == 1
MaxFaults == 1

Proxies == 1..NumProxies
Testers == 1..NumTesters
Scrapers == 1..NumScrapers
Procs == 1..NumProcs

\* the process whose testers, scraper and buffered workers are modelled
MainProc == CHOOSE p \in Procs : \A q \in Procs : p <= q

\* the clock starts late enough for a row stamped 0 to be older than the
\* scan interval and the stuck threshold
StartTime == ScanAge + 1
OldTime == StartTime - ScanAge - 1

NULL == 0
NoProxy == 0
NoRc == 2
NoExit == 2

\* blake2b(local_ip) of process p: the processes run on different hosts
Token(p) == p

\* the buffered workers: insert-proxy, update-proxy, insert-proxytest
BufWorkers == {"insert", "update", "proxytest"}

VARIABLES
    now,            \* wall clock, seconds
    budget,         \* storage faults that may still be injected
    \* --- storage: table db_config, row read_lock
    read_lock,      \* DBConfig.val of key read_lock: NULL or a token
    lock_modified,  \* DBConfig.modified of that row
    \* --- direct callers of the DBConfig lock primitives
    lpc,            \* position of process p inside lock_database
    lcall,          \* record of the latest lock/unlock call of process p
    \* --- storage: table proxy
    db,             \* row of each proxy: status, counters, modified
    \* --- ProxyTester threads
    tpc,            \* position of tester t in ProxyTester.run
    tobj,           \* the Proxy object held in tester t's variable `proxy`
    tidx,           \* index of the next probe of self.tests
    tres,           \* `results` of execute_tests: statuses of the ProxyTests
    trc,            \* row_count of tester t's lock_for_testing, NoRc if none
    mgrInterrupt,   \* TestManager.interrupt
    force,          \* args.tester_force
    \* --- ProxyScrapper thread
    spc,            \* position of the scraper in request_url
    sobj,           \* self.proxy of the scraper
    spushes,        \* number of puts the scraper made
    \* --- InsertProxyThread, UpdateProxyThread, UpdateProxyTestThread
    wQueue,         \* self.queue of each buffered worker
    wBacklog,       \* self.backlog
    wErr,           \* error_count of run
    wPc,            \* position in run
    \* --- DatabaseQueue of each process
    qInterrupt,     \* DatabaseQueue.interrupt
    qSetter,        \* the workers that called interrupt.set()
    \* --- TestingThread (fetch worker) of each process
    fpc,            \* position in run / fill_queue
    fErr,           \* error_count of run
    fQueue,         \* self.queue: ids of the proxies put
    \* --- CleanupThread of each process
    cpc,            \* position in run
    cErr,           \* error_count of run
    \* --- App (app.py) and the start of the testers
    testPogo,       \* args.test_pogo
    testAnonymity,  \* args.test_anonymity
    valid,          \* what validate() of each probe class returns
    apc,            \* position of App.start
    launched,       \* number of tester threads started by launch_testers
    exitCode,       \* exit status of the process, NoExit while it runs
    \* --- request_url and run of each ProxyScrapper thread
    rpc,            \* position of the scraper thread
    rErr,           \* error_count of request_url
    \* --- table proxy with its rows as inserted by the harvesters
    table,          \* the rows of table proxy
    plist,          \* a parsed proxy list handed to insert_proxylist
    ins,            \* how many times plist went through the insert path
    \* --- a Proxy formatted by url() and parsed again by parse_proxy
    upc,            \* "record", then "url", then "parsed"
    precord,        \* the Proxy object
    purl,           \* the string url() returned
    parsed,         \* what parse_proxy made of it
    \* --- one probe run on one response
    resp,           \* the probe class and what its request came back with
    ptest,          \* the ProxyTest of the run, and how run ended
    \* --- the refresh interval from the command line to the loop of work
    gpc,            \* "parse", "check", then "work"
    argMinutes,     \* the value given to --proxy-refresh-interval
    refreshInterval,\* args.proxy_refresh_interval
    elapsed,        \* now - refresh_timer in the loop of work, seconds
    gap,            \* seconds between the start and the first re-harvest
    \* --- one iteration of a tester on the proxy it claimed
    xpc,            \* "cleanup", "tests", then "done" or "deleted"
    xage,           \* age of the proxy, days
    xtests,         \* ProxyTests of the proxy in the cleanup period
    xfails,         \* those of them with a status other than OK
    xratio,         \* args.cleanup_fail_ratio, as a percentage
    xplan,          \* self.tests, by class name
    xforce,         \* args.tester_force
    xint,           \* manager.interrupt
    xfault,         \* a storage call of cleanup raised or deleted no row
    xidx,           \* probes of self.tests the loop went through
    xran,           \* the probes whose run() was called, in that order
    xres,           \* `results` of execute_tests
    \* --- one pipe of DatabaseQueue, its producer and its consumer
    pkind,          \* which pipe
    pn,             \* args.manager_testers
    ppc,            \* position of the worker in run
    pq,             \* self.queue
    pbacklog,       \* self.backlog
    pstored,        \* the items written to storage (fetch: handed out)
    pnext,          \* the number of items put
    plimit,         \* the number of puts the producer attempts
    pfaults,        \* storage faults that may still be injected
    pint,           \* DatabaseQueue.interrupt
    \* --- the two scan queries of Proxy on one table
    vproto,         \* Proxy.protocol of each row
    vfilter,        \* the `protocols` argument
    vgot,           \* what get_for_scan returned
    vlist,          \* what need_scan returned
    \* --- Proxy.delete_failed on one table
    dtable,         \* the Proxy rows with their failed ProxyTests
    dcount          \* the count delete_failed returned

lockVars == <<read_lock, lock_modified>>
callVars == <<lpc, lcall>>
testerVars == <<tpc, tobj, tidx, tres, trc, mgrInterrupt, force>>
scraperVars == <<spc, sobj, spushes>>
bufVars == <<wQueue, wBacklog, wErr, wPc>>
intVars == <<qInterrupt, qSetter>>
fetchVars == <<fpc, fErr, fQueue>>
cleanVars == <<cpc, cErr>>

startVars == <<testPogo, testAnonymity, valid, apc, launched, exitCode>>

requestVars == <<rpc, rErr>>

tableVars == <<table, plist, ins>>

urlVars == <<upc, precord, purl, parsed>>
probeVars == <<resp, ptest>>

confVars == <<gpc, argMinutes, refreshInterval, elapsed, gap>>

\* the components added to the ones above
iterVars == <<xpc, xage, xtests, xfails, xratio, xplan, xforce, xint, xfault,
              xidx, xran, xres>>

pipeVars == <<pkind, pn, ppc, pq, pbacklog, pstored, pnext, plimit, pfaults,
              pint>>

scanVars == <<vproto, vfilter, vgot, vlist>>

delVars == <<dtable, dcount>>

moreVars == <<confVars, iterVars, pipeVars, scanVars, delVars>>

\* the threads of the queue workers, testers and scraper
threadVars == <<now, budget, lockVars, callVars, db, testerVars, scraperVars,
                bufVars, intVars, fetchVars, cleanVars>>

\* the components checked on their own
unitVars == <<startVars, requestVars, tableVars, urlVars, probeVars,
              moreVars>>

vars == <<threadVars, unitVars>>

\* ---------------------------------------------------------------------
\* DBConfig.lock_database / unlock_database  (models.py 653-699)

\* first UPDATE: WHERE key == 'read_lock' AND val IS NULL
LockIsFree_AlwaysFree(val) == TRUE
LockIsFree(val) == val = NULL

\* second UPDATE: WHERE key == 'read_lock' AND modified < utcnow() - 10 s
LeaseExpired_Always(modified, t) == TRUE
LeaseExpired(modified, t) == modified < t - Lease

\* how long the lock row had been unmodified when a call decided: "young" is
\* fewer than Lease seconds, "old" is more than Lease seconds
AgeClass(modified, t) ==
    IF t - modified < Lease THEN "young"
    ELSE IF t - modified > Lease THEN "old" ELSE "edge"

NoCall == [op |-> "none", free |-> FALSE, before |-> NULL, after |-> NULL,
           age |-> "young", ret |-> FALSE]

othersOfLock == <<budget, db, testerVars, scraperVars, bufVars, intVars,
                  fetchVars, cleanVars, unitVars>>

\* entry of lock_database: the token is computed, nothing is written yet
LockInvoke(p) ==
    /\ lpc[p] = "idle"
    /\ lpc' = [lpc EXCEPT ![p] = "stmt1"]
    /\ lcall' = [lcall EXCEPT ![p] =
                   [op |-> "locking", free |-> LockIsFree(read_lock),
                    before |-> read_lock, after |-> read_lock,
                    age |-> "young", ret |-> FALSE]]
    /\ UNCHANGED <<now, lockVars, othersOfLock>>

\* first conditional update; row_count == 1 returns True
LockStmt1(p) ==
    /\ lpc[p] = "stmt1"
    /\ IF LockIsFree(read_lock)
       THEN /\ read_lock' = Token(p)
            /\ lock_modified' = now
            /\ lpc' = [lpc EXCEPT ![p] = "idle"]
            /\ lcall' = [lcall EXCEPT ![p] =
                   [@ EXCEPT !.op = "lock", !.before = read_lock,
                             !.after = Token(p), !.age = "young", !.ret = TRUE]]
       ELSE /\ lpc' = [lpc EXCEPT ![p] = "stmt2"]
            /\ UNCHANGED <<read_lock, lock_modified, lcall>>
    /\ UNCHANGED <<now, othersOfLock>>

\* second conditional update (forced seizure); otherwise return False
LockStmt2(p) ==
    /\ lpc[p] = "stmt2"
    /\ IF LeaseExpired(lock_modified, now)
       THEN /\ read_lock' = Token(p)
            /\ lock_modified' = now
            /\ lcall' = [lcall EXCEPT ![p] =
                   [@ EXCEPT !.op = "lock", !.before = read_lock,
                             !.after = Token(p),
                             !.age = AgeClass(lock_modified, now), !.ret = TRUE]]
       ELSE /\ lcall' = [lcall EXCEPT ![p] =
                   [@ EXCEPT !.op = "lock", !.before = read_lock,
                             !.after = read_lock,
                             !.age = AgeClass(lock_modified, now), !.ret = FALSE]]
            /\ UNCHANGED <<read_lock, lock_modified>>
    /\ lpc' = [lpc EXCEPT ![p] = "idle"]
    /\ UNCHANGED <<now, othersOfLock>>

\* DBConfig.unlock_database(): UPDATE val = NULL WHERE key == 'read_lock'
UnlockDatabase(p) ==
    /\ lpc[p] = "idle"
    /\ read_lock' = NULL
    /\ lock_modified' = now
    /\ lcall' = [lcall EXCEPT ![p] =
                   [op |-> "unlock", free |-> LockIsFree(read_lock),
                    before |-> read_lock, after |-> NULL,
                    age |-> AgeClass(lock_modified, now), ret |-> TRUE]]
    /\ UNCHANGED <<now, lpc, othersOfLock>>

\* one second passes
TickSecond ==
    /\ now < StartTime + MaxTicks
    /\ now' = now + 1
    /\ UNCHANGED <<lockVars, callVars, othersOfLock>>

\* ---------------------------------------------------------------------
\* Proxy rows and Proxy objects

\* the fields of a Proxy the workers read and write
Row(st, tc, fc, md) ==
    [status |-> st, test_count |-> tc, fail_count |-> fc, modified |-> md]

\* a model instance loaded from row p
Snapshot(p) ==
    [id |-> p, status |-> db[p].status, test_count |-> db[p].test_count,
     fail_count |-> db[p].fail_count, modified |-> db[p].modified]

\* no object: the variable is unbound or None
NoObj ==
    [id |-> NoProxy, status |-> UNKNOWN, test_count |-> 0, fail_count |-> 0,
     modified |-> 0]

\* a save that writes the status of the claim instead of the object's
SaveRow_Claimed(obj) ==
    Row(TESTING, obj.test_count, obj.fail_count, obj.modified)

\* UPDATE of status, counters and modified WHERE id == obj.id
\* (Model.save of a loaded instance; one row of bulk_update)
SaveRow(obj) ==
    Row(obj.status, obj.test_count, obj.fail_count, obj.modified)

\* Proxy.need_scan conditions (models.py 215-231)
NeedScan(p) ==
    /\ db[p].modified < now - ScanAge
    /\ db[p].status # TESTING

\* Proxy.get_for_scan conditions (models.py 233-248)
ForScan(p) ==
    \/ db[p].status = UNKNOWN
    \/ /\ db[p].modified < now - ScanAge
       /\ db[p].status # TESTING

\* Proxy.lock_for_testing conditions (models.py 250-263):
\* WHERE id == self.id AND status == self.status
LockCondition_IdOnly(obj) == TRUE
LockCondition(obj) == db[obj.id].status = obj.status

\* ---------------------------------------------------------------------
\* ProxyTester (proxy_tester.py)

\* update_stats (157-170)
UpdateStats_FailOnly(obj, st) ==
    [obj EXCEPT !.test_count = IF st = OK THEN @ + 1 ELSE @,
                !.fail_count = IF st # OK THEN @ + 1 ELSE @]
UpdateStats(obj, st) ==
    [obj EXCEPT !.test_count = @ + 1,
                !.fail_count = IF st # OK THEN @ + 1 ELSE @]

othersOfTester == <<lockVars, callVars, scraperVars, bufVars, intVars,
                    fetchVars, cleanVars, unitVars>>

\* loop head of run (51-54), connect and Proxy.get_for_scan (56-64).
\* A DatabaseError is logged with proxy.id: with no object bound the handler
\* raises and the thread ends, otherwise run falls through to execute_tests
\* with the object the variable still holds.  MaxConnectionsExceeded
\* breaks the loop.  The rows are younger than the cleanup period, so
\* cleanup(proxy) (73) returns False.
TesterScan(t) ==
    /\ tpc[t] = "scan"
    /\ IF mgrInterrupt
       THEN /\ tpc' = [tpc EXCEPT ![t] = "done"]
            /\ UNCHANGED <<tobj, trc, budget>>
       ELSE \/ \E p \in Proxies :
                 /\ ForScan(p)
                 /\ db[p].test_count + NumProbes <= MaxCount
                 /\ tobj' = [tobj EXCEPT ![t] = Snapshot(p)]
                 /\ trc' = [trc EXCEPT ![t] = NoRc]
                 /\ tpc' = [tpc EXCEPT ![t] = "lock"]
                 /\ UNCHANGED budget
            \/ /\ \A p \in Proxies : ~ForScan(p)
               /\ tobj' = [tobj EXCEPT ![t] = NoObj]
               /\ trc' = [trc EXCEPT ![t] = NoRc]
               /\ UNCHANGED <<tpc, budget>>
            \/ /\ budget > 0
               /\ budget' = budget - 1
               /\ \/ tpc' = [tpc EXCEPT ![t] =
                               IF tobj[t].id = NoProxy THEN "dead" ELSE "tests"]
                  \/ tpc' = [tpc EXCEPT ![t] = "done"]
               /\ trc' = [trc EXCEPT ![t] = NoRc]
               /\ UNCHANGED tobj
    /\ UNCHANGED <<now, db, tidx, tres, mgrInterrupt, force, othersOfTester>>

\* proxy.lock_for_testing() and the row_count test (66-70); a DatabaseError
\* falls through to execute_tests
LockForTesting(t) ==
    /\ tpc[t] = "lock"
    /\ \/ /\ LockCondition(tobj[t])
          /\ db' = [db EXCEPT ![tobj[t].id] =
                       [@ EXCEPT !.status = TESTING, !.modified = now]]
          /\ trc' = [trc EXCEPT ![t] = 1]
          /\ tpc' = [tpc EXCEPT ![t] = "tests"]
          /\ UNCHANGED budget
       \/ /\ ~LockCondition(tobj[t])
          /\ trc' = [trc EXCEPT ![t] = 0]
          /\ tpc' = [tpc EXCEPT ![t] = "scan"]
          /\ UNCHANGED <<db, budget>>
       \/ /\ budget > 0
          /\ budget' = budget - 1
          /\ tpc' = [tpc EXCEPT ![t] = "tests"]
          /\ UNCHANGED <<db, trc>>
    /\ UNCHANGED <<now, tobj, tidx, tres, mgrInterrupt, force, othersOfTester>>

\* what execute_tests returns: the placeholder when nothing was recorded
FinalResults(res) == IF res = <<>> THEN <<ERROR>> ELSE res

\* one iteration of the loop of execute_tests (220-258): the probe is
\* skipped, returns nothing, returns a ProxyTest with status st, or raises
RunProbe(t) ==
    /\ tpc[t] = "tests"
    /\ tidx[t] < NumProbes
    /\ tobj[t].test_count < MaxCount
    /\ LET last == tidx[t] + 1 = NumProbes IN
       \/ \* skip_test is true, or run returned None
          /\ tidx' = [tidx EXCEPT ![t] = @ + 1]
          /\ tres' = [tres EXCEPT ![t] = IF last THEN FinalResults(@) ELSE @]
          /\ tpc' = [tpc EXCEPT ![t] = IF last THEN "write" ELSE "tests"]
          /\ UNCHANGED <<tobj, mgrInterrupt>>
       \/ \E st \in ProbeStatuses :
            LET stop == \/ (~force /\ st # OK)
                        \/ mgrInterrupt
                        \/ last
            IN /\ tobj' = [tobj EXCEPT ![t] = UpdateStats(@, st)]
               /\ tres' = [tres EXCEPT ![t] = Append(@, st)]
               /\ tidx' = [tidx EXCEPT ![t] = @ + 1]
               /\ tpc' = [tpc EXCEPT ![t] = IF stop THEN "write" ELSE "tests"]
               /\ UNCHANGED mgrInterrupt
       \/ \* the probe raised: the interrupt is set and the loop left
          /\ mgrInterrupt' = TRUE
          /\ tres' = [tres EXCEPT ![t] = FinalResults(@)]
          /\ tpc' = [tpc EXCEPT ![t] = "write"]
          /\ UNCHANGED <<tobj, tidx>>
    /\ UNCHANGED <<now, budget, db, trc, force, othersOfTester>>

\* update_database (172-202) as called by run (91): the ProxyTests and the
\* Proxy object are saved as they are; on a storage error run breaks.  The
\* results list and the probe index are locals of execute_tests and end
\* with the call; the object stays in `proxy`, where only the DatabaseError
\* handler of run reads it again, so it is kept while a storage fault can
\* still be injected.
UpdateDatabase(t) ==
    /\ tpc[t] = "write"
    /\ \/ /\ db' = [db EXCEPT ![tobj[t].id] = SaveRow(tobj[t])]
          /\ tpc' = [tpc EXCEPT ![t] = "scan"]
          /\ tobj' = [tobj EXCEPT ![t] = IF budget > 0 THEN @ ELSE NoObj]
          /\ UNCHANGED budget
       \/ /\ budget > 0
          /\ budget' = budget - 1
          /\ tpc' = [tpc EXCEPT ![t] = "done"]
          /\ UNCHANGED <<db, tobj>>
    /\ trc' = [trc EXCEPT ![t] = NoRc]
    /\ tidx' = [tidx EXCEPT ![t] = 0]
    /\ tres' = [tres EXCEPT ![t] = <<>>]
    /\ UNCHANGED <<now, mgrInterrupt, force, othersOfTester>>

\* TestManager.stop sets the manager's interrupt (191-192)
StopManager ==
    /\ ~mgrInterrupt
    /\ mgrInterrupt' = TRUE
    /\ UNCHANGED <<now, budget, db, tpc, tobj, tidx, tres, trc, force,
                   othersOfTester>>

\* tester t won lock_for_testing and has not written the result back
Holds(t) == trc[t] = 1

\* ---------------------------------------------------------------------
\* ProxyScrapper (proxy_scrapper.py 58-87, 145-188, 309-317)

\* maxsize of the update-proxy and proxytest pipes (db.py 335, 415); the
\* insert-proxy pipe is unbounded (156)
UpdateCapacity == NumTesters * UpdateFactor
ProxyTestCapacity == NumTesters * ProxyTestFactor

othersOfScraper == <<budget, lockVars, callVars, db, testerVars, wBacklog,
                     wErr, wPc, intVars, fetchVars, cleanVars, unitVars>>

\* setup_proxy -> get_proxy: Proxy.get_random(limit=1).get()
ScraperGetProxy ==
    /\ spc = "idle"
    /\ ~qInterrupt[MainProc]
    /\ spushes < MaxPushes
    /\ \E p \in Proxies :
         /\ db[p].test_count < MaxCount
         /\ sobj' = Snapshot(p)
    /\ spc' = "request"
    /\ UNCHANGED <<now, spushes, wQueue, othersOfScraper>>

\* update_proxy(error) after the request was made through the proxy: the
\* object goes to the update-proxy pipe, a ProxyTest to the proxytest pipe
ScraperUpdateProxy ==
    /\ spc = "request"
    /\ Len(wQueue["update"]) < UpdateCapacity
    /\ Len(wQueue["proxytest"]) < ProxyTestCapacity
    /\ \E error \in BOOLEAN :
         LET obj == [sobj EXCEPT !.test_count = @ + 1,
                                 !.modified = now,
                                 !.fail_count = IF error THEN @ + 1 ELSE @]
             test == [id |-> obj.id, status |-> IF error THEN ERROR ELSE OK]
         IN /\ sobj' = obj
            /\ wQueue' = [wQueue EXCEPT !["update"] = Append(@, obj),
                                        !["proxytest"] = Append(@, test)]
    /\ spushes' = spushes + 1
    /\ spc' = "idle"
    /\ UNCHANGED <<now, othersOfScraper>>

\* run (309-317): a scraped and parsed proxy is handed to insert_proxylist;
\* the proxy is identified by the row holding its (ip, port)
ScraperInsert ==
    /\ spc = "idle"
    /\ spushes < MaxPushes
    /\ \E p \in Proxies :
         wQueue' = [wQueue EXCEPT !["insert"] = Append(@, [id |-> p])]
    /\ spushes' = spushes + 1
    /\ UNCHANGED <<now, spc, sobj, othersOfScraper>>

\* ---------------------------------------------------------------------
\* InsertProxyThread (db.py 149-227), UpdateProxyThread (327-404),
\* UpdateProxyTestThread (407-476)

\* update workers that keep their size threshold after the interrupt
Threshold_KeepThreshold(w, interrupted) ==
    IF w = "insert" THEN InsertThreshold
    ELSE LET cap == IF w = "update" THEN UpdateCapacity ELSE ProxyTestCapacity
         IN IF cap - 1 < FlushThreshold THEN cap - 1 ELSE FlushThreshold

\* InsertProxyThread.update_db: qsize + len(backlog) < 1;
\* update workers: threshold = min(self.queue.maxsize-1, threshold), with
\* threshold 0 once the interrupt is set
Threshold(w, interrupted) ==
    IF w = "insert" THEN InsertThreshold
    ELSE LET th == IF interrupted THEN 0 ELSE FlushThreshold
             cap == IF w = "update" THEN UpdateCapacity ELSE ProxyTestCapacity
         IN IF cap - 1 < th THEN cap - 1 ELSE th

\* Proxy.bulk_update of one batch: a CASE on the primary key per field, so
\* the first object of the batch with a given id supplies the values
RECURSIVE FirstWith(_, _)
FirstWith(list, p) ==
    IF list = <<>> THEN NoObj
    ELSE IF Head(list).id = p THEN Head(list)
    ELSE FirstWith(Tail(list), p)

BulkUpdate(rows, list) ==
    [p \in Proxies |->
        IF FirstWith(list, p).id = p THEN SaveRow(FirstWith(list, p))
        ELSE rows[p]]

\* insert_many(...).on_conflict(preserve=[username, password, protocol,
\* modified]): a row whose (ip, port) exists takes the inserted values of the
\* preserved columns; modified is not in the dictionary and is inserted with
\* its default, utcnow
InsertMany(rows, list, t) ==
    [p \in Proxies |->
        IF \E i \in 1..Len(list) : list[i].id = p
        THEN [rows[p] EXCEPT !.modified = t]
        ELSE rows[p]]

\* what a committed transaction of worker w leaves in table proxy
Flush(w, rows, list, t) ==
    IF w = "update" THEN BulkUpdate(rows, list)
    ELSE IF w = "insert" THEN InsertMany(rows, list, t)
    ELSE rows

othersOfBuf == <<lockVars, callVars, testerVars, scraperVars, fetchVars,
                 cleanVars, unitVars>>

\* one iteration of the loop of run: the error_count test, then update_db and
\* its bookkeeping.  Below the threshold nothing is done; otherwise the pipe
\* is drained and one transaction attempted, which succeeds, fails with the
\* backlog kept, or (update workers, which clear the backlog inside the
\* atomic block) fails at commit with the backlog already cleared
BufRun(w) ==
    /\ wPc[w] = "run"
    /\ IF wErr[w] > MaxErrors
       THEN /\ qInterrupt' = [qInterrupt EXCEPT ![MainProc] = TRUE]
            /\ qSetter' = qSetter \cup {w}
            /\ wPc' = [wPc EXCEPT ![w] = "final"]
            /\ UNCHANGED <<budget, db, wQueue, wBacklog, wErr>>
       ELSE LET all == wBacklog[w] \o wQueue[w]
                stopped == qInterrupt[MainProc]
                after == IF stopped THEN "final" ELSE "run"
            IN /\ \/ /\ Len(all) < Threshold(w, stopped)
                     /\ wErr' = [wErr EXCEPT ![w] = 0]
                     /\ wPc' = [wPc EXCEPT ![w] = after]
                     /\ UNCHANGED <<budget, db, wQueue, wBacklog>>
                  \/ /\ Len(all) >= Threshold(w, stopped)
                     /\ wQueue' = [wQueue EXCEPT ![w] = <<>>]
                     /\ \/ /\ db' = Flush(w, db, all, now)
                           /\ wBacklog' = [wBacklog EXCEPT ![w] = <<>>]
                           /\ wErr' = [wErr EXCEPT ![w] = 0]
                           /\ wPc' = [wPc EXCEPT ![w] = after]
                           /\ UNCHANGED budget
                        \/ /\ budget > 0
                           /\ budget' = budget - 1
                           /\ \/ wBacklog' = [wBacklog EXCEPT ![w] = all]
                              \/ /\ w # "insert"
                                 /\ wBacklog' = [wBacklog EXCEPT ![w] = <<>>]
                           /\ wErr' = [wErr EXCEPT ![w] = @ + 1]
                           /\ UNCHANGED <<db, wPc>>
               /\ UNCHANGED intVars
    /\ UNCHANGED <<now, othersOfBuf>>

\* the last update_db() of run, threshold 0 (insert: 1), result ignored
BufFinal(w) ==
    /\ wPc[w] = "final"
    /\ LET all == wBacklog[w] \o wQueue[w] IN
       IF Len(all) < Threshold(w, TRUE)
       THEN UNCHANGED <<budget, db, wQueue, wBacklog>>
       ELSE /\ wQueue' = [wQueue EXCEPT ![w] = <<>>]
            /\ \/ /\ db' = Flush(w, db, all, now)
                  /\ wBacklog' = [wBacklog EXCEPT ![w] = <<>>]
                  /\ UNCHANGED budget
               \/ /\ budget > 0
                  /\ budget' = budget - 1
                  /\ \/ wBacklog' = [wBacklog EXCEPT ![w] = all]
                     \/ /\ w # "insert"
                        /\ wBacklog' = [wBacklog EXCEPT ![w] = <<>>]
                  /\ UNCHANGED db
    /\ wPc' = [wPc EXCEPT ![w] = "done"]
    /\ UNCHANGED <<now, wErr, intVars, othersOfBuf>>

\* DatabaseQueue.stop sets the queues' interrupt (588-589)
StopQueue(p) ==
    /\ ~qInterrupt[p]
    /\ qInterrupt' = [qInterrupt EXCEPT ![p] = TRUE]
    /\ UNCHANGED <<now, budget, lockVars, callVars, db, testerVars,
                   scraperVars, bufVars, qSetter, fetchVars, cleanVars,
                   unitVars>>

\* ---------------------------------------------------------------------
\* TestingThread, the fetch worker (db.py 230-324)

\* self.queue maxsize (236)
FetchCapacity == NumTesters * FetchFactor

\* order_by(Proxy.status.asc(), Proxy.modified.asc()); equal keys come in
\* primary key order
ScanBefore(x, y) ==
    \/ db[x].status < db[y].status
    \/ /\ db[x].status = db[y].status
       /\ db[x].modified < db[y].modified
    \/ /\ db[x].status = db[y].status
       /\ db[x].modified = db[y].modified
       /\ x <= y

\* the first n rows of S in that order
RECURSIVE TakeOrdered(_, _)
TakeOrdered(S, n) ==
    IF S = {} \/ n = 0 THEN <<>>
    ELSE LET m == CHOOSE x \in S : \A y \in S : ScanBefore(x, y)
         IN <<m>> \o TakeOrdered(S \ {m}, n - 1)

\* Proxy.need_scan(limit) (models.py 215-231)
NeedScanQuery(limit) == TakeOrdered({p \in Proxies : NeedScan(p)}, limit)

Range(s) == {s[i] : i \in 1..Len(s)}

othersOfFetch == <<callVars, db, testerVars, scraperVars, bufVars, cleanVars,
                   unitVars>>

\* loop head of run (305-312) and the entry of fill_queue (251-260): a full
\* pipe sleeps and returns True; DatabaseQueue.lock_database (598-608)
\* returns False when the connection fails, and fill_queue returns True
FetchHead(p) ==
    /\ fpc[p] = "head"
    /\ IF fErr[p] > MaxErrors
       THEN /\ qInterrupt' = [qInterrupt EXCEPT ![p] = TRUE]
            /\ qSetter' = qSetter \cup {"fetch"}
            /\ fpc' = [fpc EXCEPT ![p] = "release"]
            /\ UNCHANGED <<budget, fErr>>
       ELSE /\ IF qInterrupt[p]
               THEN /\ fpc' = [fpc EXCEPT ![p] = "release"]
                    /\ UNCHANGED <<budget, fErr>>
               ELSE IF Len(fQueue[p]) = FetchCapacity
               THEN /\ fErr' = [fErr EXCEPT ![p] = 0]
                    /\ UNCHANGED <<budget, fpc>>
               ELSE \/ /\ fpc' = [fpc EXCEPT ![p] = "lock1"]
                       /\ UNCHANGED <<budget, fErr>>
                    \/ /\ budget > 0
                       /\ budget' = budget - 1
                       /\ fErr' = [fErr EXCEPT ![p] = 0]
                       /\ UNCHANGED fpc
            /\ UNCHANGED intVars
    /\ UNCHANGED <<now, lockVars, fQueue, othersOfFetch>>

\* DBConfig.lock_database, first conditional update
FetchLock1(p) ==
    /\ fpc[p] = "lock1"
    /\ IF LockIsFree(read_lock)
       THEN /\ read_lock' = Token(p)
            /\ lock_modified' = now
            /\ fpc' = [fpc EXCEPT ![p] = "fill"]
       ELSE /\ fpc' = [fpc EXCEPT ![p] = "lock2"]
            /\ UNCHANGED lockVars
    /\ UNCHANGED <<now, budget, fErr, fQueue, intVars, othersOfFetch>>

\* DBConfig.lock_database, second conditional update; on False fill_queue
\* sleeps and returns True, and run resets error_count
FetchLock2(p) ==
    /\ fpc[p] = "lock2"
    /\ IF LeaseExpired(lock_modified, now)
       THEN /\ read_lock' = Token(p)
            /\ lock_modified' = now
            /\ fpc' = [fpc EXCEPT ![p] = "fill"]
            /\ UNCHANGED fErr
       ELSE /\ fpc' = [fpc EXCEPT ![p] = "head"]
            /\ fErr' = [fErr EXCEPT ![p] = 0]
            /\ UNCHANGED lockVars
    /\ UNCHANGED <<now, budget, fQueue, intVars, othersOfFetch>>

\* the try block of fill_queue (262-277): the rows of need_scan are put in
\* the pipe, then Proxy.bulk_lock, which Proxy does not define, raises
\* AttributeError; with a DatabaseError nothing was put.  Either way the
\* finally clause calls DatabaseQueue.unlock_database, whose call of
\* DBConfig.unlock_database(local_ip) raises TypeError: the thread ends with
\* the lock row untouched
FetchFill(p) ==
    /\ fpc[p] = "fill"
    /\ \/ /\ fQueue' = [fQueue EXCEPT ![p] =
                  @ \o NeedScanQuery(FetchCapacity - Len(@))]
          /\ UNCHANGED budget
       \/ /\ budget > 0
          /\ budget' = budget - 1
          /\ UNCHANGED fQueue
    /\ fpc' = [fpc EXCEPT ![p] = "dead"]
    /\ UNCHANGED <<now, lockVars, fErr, intVars, othersOfFetch>>

\* release_queue (281-300): the pipe is drained, then Proxy.bulk_unlock,
\* which Proxy does not define, raises AttributeError
FetchRelease(p) ==
    /\ fpc[p] = "release"
    /\ fQueue' = [fQueue EXCEPT ![p] = <<>>]
    /\ fpc' = [fpc EXCEPT ![p] = "dead"]
    /\ UNCHANGED <<now, budget, lockVars, fErr, intVars, othersOfFetch>>

\* ---------------------------------------------------------------------
\* CleanupThread (db.py 479-547)

othersOfClean == <<callVars, db, testerVars, scraperVars, bufVars, fetchVars,
                   unitVars>>

\* loop head of run (523-534): a False of DatabaseQueue.lock_database
\* sleeps and continues
CleanupHead(p) ==
    /\ cpc[p] = "head"
    /\ IF cErr[p] > MaxErrors
       THEN /\ qInterrupt' = [qInterrupt EXCEPT ![p] = TRUE]
            /\ qSetter' = qSetter \cup {"cleanup"}
            /\ cpc' = [cpc EXCEPT ![p] = "done"]
            /\ UNCHANGED budget
       ELSE /\ IF qInterrupt[p]
               THEN /\ cpc' = [cpc EXCEPT ![p] = "done"]
                    /\ UNCHANGED budget
               ELSE \/ /\ cpc' = [cpc EXCEPT ![p] = "lock1"]
                       /\ UNCHANGED budget
                    \/ /\ budget > 0
                       /\ budget' = budget - 1
                       /\ UNCHANGED cpc
            /\ UNCHANGED intVars
    /\ UNCHANGED <<now, lockVars, cErr, othersOfClean>>

\* DBConfig.lock_database, first conditional update
CleanupLock1(p) ==
    /\ cpc[p] = "lock1"
    /\ IF LockIsFree(read_lock)
       THEN /\ read_lock' = Token(p)
            /\ lock_modified' = now
            /\ cpc' = [cpc EXCEPT ![p] = "pass"]
       ELSE /\ cpc' = [cpc EXCEPT ![p] = "lock2"]
            /\ UNCHANGED lockVars
    /\ UNCHANGED <<now, budget, cErr, intVars, othersOfClean>>

\* DBConfig.lock_database, second conditional update
CleanupLock2(p) ==
    /\ cpc[p] = "lock2"
    /\ IF LeaseExpired(lock_modified, now)
       THEN /\ read_lock' = Token(p)
            /\ lock_modified' = now
            /\ cpc' = [cpc EXCEPT ![p] = "pass"]
       ELSE /\ cpc' = [cpc EXCEPT ![p] = "head"]
            /\ UNCHANGED lockVars
    /\ UNCHANGED <<now, budget, cErr, intVars, othersOfClean>>

\* update_db (497-518) and the unlock of run (537).  Connected, update_db
\* calls self.unlock_stuck (486-495): Proxy.unlock_stuck (models.py 410-430)
\* returns the UPDATE query without executing it and `row_count > 0`
\* raises TypeError, which no handler catches.  Not connected, update_db
\* returns False and run calls DatabaseQueue.unlock_database, which raises
\* TypeError.  Either way the thread ends; no row and no lock is written
CleanupPass(p) ==
    /\ cpc[p] = "pass"
    /\ \/ UNCHANGED budget
       \/ /\ budget > 0
          /\ budget' = budget - 1
    /\ cpc' = [cpc EXCEPT ![p] = "dead"]
    /\ UNCHANGED <<now, lockVars, cErr, intVars, othersOfClean>>

\* ---------------------------------------------------------------------
\* App.start and the start of the testers (app.py 35-73, test_manager.py
\* 75-93, 162-189)

\* the probe classes TestManager imports (test_manager.py 17-21)
ProbeClasses == {"Google", "AZenv", "PoGoAPI", "PoGoLogin", "PoGoSignup"}

\* plan_test_cycle (75-83): Google first, the others inserted at index 1
PlanTestCycle(pogo, anonymity) ==
    <<"Google">>
      \o (IF anonymity THEN <<"AZenv">> ELSE <<>>)
      \o (IF pogo THEN <<"PoGoAPI", "PoGoLogin", "PoGoSignup">> ELSE <<>>)

\* validate_responses (85-93): False at the first probe class whose
\* validate() is false
ValidateResponses(classes, v) ==
    \A i \in 1..Len(classes) : v[classes[i]]

\* App.__launch (51-65): the validation, then launch() or sys.exit(1), which
\* raises SystemExit(1) into App.start
AppLaunch ==
    /\ apc = "launch"
    /\ IF ValidateResponses(PlanTestCycle(testPogo, testAnonymity), valid)
       THEN /\ apc' = "launcher"
            /\ UNCHANGED exitCode
       ELSE /\ apc' = "except"
            /\ exitCode' = 1
    /\ UNCHANGED <<testPogo, testAnonymity, valid, launched, threadVars,
                   requestVars, tableVars, urlVars, probeVars,
                   moreVars>>

\* one turn of the loop of launch_testers (179-189)
LaunchTester ==
    /\ apc = "launcher"
    /\ launched < NumTesters
    /\ ~mgrInterrupt
    /\ launched' = launched + 1
    /\ UNCHANGED <<testPogo, testAnonymity, valid, apc, exitCode,
                   threadVars, requestVars, tableVars, urlVars, probeVars,
                   moreVars>>

\* KeyboardInterrupt while App.__launch or App.__work runs
AppInterrupt ==
    /\ apc = "launcher"
    /\ apc' = "except"
    /\ UNCHANGED <<testPogo, testAnonymity, valid, launched, exitCode,
                   threadVars, requestVars, tableVars, urlVars, probeVars,
                   moreVars>>

\* App.start (41-49): the handler of KeyboardInterrupt and SystemExit, then
\* the finally clause, whose sys.exit() raises SystemExit(None) in place of
\* whatever was in flight: exit status 0
AppFinally ==
    /\ apc = "except"
    /\ exitCode' = 0
    /\ apc' = "exited"
    /\ UNCHANGED <<testPogo, testAnonymity, valid, launched, threadVars,
                   requestVars, tableVars, urlVars, probeVars,
                   moreVars>>

\* ---------------------------------------------------------------------
\* ProxyScrapper.request_url and run without an upstream proxy
\* (proxy_scrapper.py 145-188, 309-317)

othersOfRequest == <<now, budget, lockVars, callVars, db, testerVars,
                     scraperVars, wBacklog, wErr, wPc, intVars, fetchVars,
                     cleanVars, startVars, tableVars, urlVars, probeVars,
                   moreVars>>

\* the loop head of request_url (149-156): the interrupt or more than
\* RequestErrors failures leave the loop, and request_url returns None
RequestHead(s) ==
    /\ rpc[s] = "head"
    /\ rpc' = [rpc EXCEPT ![s] =
                 IF qInterrupt[MainProc] \/ rErr[s] > RequestErrors
                 THEN "none" ELSE "try"]
    /\ UNCHANGED <<rErr, wQueue, othersOfRequest>>

\* the try block (157-186): at RequestErrors failures `continue`; else the
\* request returns content, returns nothing, or raises
RequestTry(s) ==
    /\ rpc[s] = "try"
    /\ IF rErr[s] = RequestErrors
       THEN /\ rpc' = [rpc EXCEPT ![s] = "head"]
            /\ UNCHANGED rErr
       ELSE \/ /\ rpc' = [rpc EXCEPT ![s] = "content"]
               /\ UNCHANGED rErr
            \/ /\ rErr' = [rErr EXCEPT ![s] = @ + 1]
               /\ rpc' = [rpc EXCEPT ![s] = "head"]
    /\ UNCHANGED <<wQueue, othersOfRequest>>

\* the rest of scrap and run (309-317): the proxies parsed from the content
\* go to insert_proxylist, none when request_url returned None
ScrapEnd(s) ==
    /\ rpc[s] \in {"content", "none"}
    /\ IF rpc[s] = "content"
       THEN \E p \in Proxies :
              wQueue' = [wQueue EXCEPT !["insert"] = Append(@, [id |-> p])]
       ELSE UNCHANGED wQueue
    /\ rpc' = [rpc EXCEPT ![s] = "ended"]
    /\ UNCHANGED <<rErr, othersOfRequest>>

\* ---------------------------------------------------------------------
\* Rows of table proxy by (ip, port): the insert statement of
\* InsertProxyThread.update_db (db.py 170-206) and Proxy.insert_bulk
\* (models.py 376-408)

\* the dictionaries of parse_proxy (proxy_scrapper.py 247-253): a record
\* has no credentials or a username and a password
Records ==
    {[ip |-> i, port |-> q, protocol |-> pr, username |-> c, password |-> c] :
        i \in 1..NumIPs, q \in 1..NumPorts, pr \in {HTTP, SOCKS5},
        c \in 0..NumCredentials}

\* an insert that does nothing when (ip, port) exists
UpsertRow_Ignore(tbl, r, t) ==
    IF \E x \in tbl : x.ip = r.ip /\ x.port = r.port
    THEN tbl
    ELSE tbl \cup {[id |-> Cardinality(tbl) + 1, ip |-> r.ip, port |-> r.port,
                     protocol |-> r.protocol, username |-> r.username,
                     password |-> r.password, status |-> UNKNOWN,
                     modified |-> t]}

\* an insert into a table without the unique index on (ip, port)
UpsertRow_NoIndex(tbl, r, t) ==
    tbl \cup {[id |-> Cardinality(tbl) + 1, ip |-> r.ip, port |-> r.port,
                protocol |-> r.protocol, username |-> r.username,
                password |-> r.password, status |-> UNKNOWN, modified |-> t]}

\* one row of insert_many(...).on_conflict(preserve=[username, password,
\* protocol, modified]) at time t: with the unique index on (ip, port)
\* (models.py 124-128) a row that exists takes the inserted values of the
\* preserved columns, modified being inserted with its default utcnow; the
\* other columns keep their values.  A new row gets the next id and the
\* column defaults
UpsertRow(tbl, r, t) ==
    IF \E x \in tbl : x.ip = r.ip /\ x.port = r.port
    THEN {IF x.ip = r.ip /\ x.port = r.port
          THEN [x EXCEPT !.protocol = r.protocol, !.username = r.username,
                         !.password = r.password, !.modified = t]
          ELSE x : x \in tbl}
    ELSE tbl \cup {[id |-> Cardinality(tbl) + 1, ip |-> r.ip, port |-> r.port,
                     protocol |-> r.protocol, username |-> r.username,
                     password |-> r.password, status |-> UNKNOWN,
                     modified |-> t]}

\* the rows of one statement, in the order of the list
RECURSIVE InsertBatch(_, _, _)
InsertBatch(tbl, list, t) ==
    IF list = <<>> THEN tbl
    ELSE InsertBatch(UpsertRow(tbl, Head(list), t), Tail(list), t)

othersOfTable == <<budget, lockVars, callVars, db, testerVars, scraperVars,
                   bufVars, intVars, fetchVars, cleanVars, startVars,
                   requestVars, urlVars, probeVars,
                   moreVars>>

\* put_list and a successful update_db of the insert worker for plist, its
\* records in any order
InsertList ==
    /\ ins < MaxInserts
    /\ \E f \in [1..Len(plist) -> 1..Len(plist)] :
         /\ \A i, j \in 1..Len(plist) : i # j => f[i] # f[j]
         /\ table' = InsertBatch(table, [i \in 1..Len(plist) |-> plist[f[i]]],
                                 now)
    /\ ins' = ins + 1
    /\ UNCHANGED <<now, plist, othersOfTable>>

\* the statement of any harvester's batch, of this process or another
HarvestInsert ==
    /\ \E n \in 0..MaxList : \E list \in [1..n -> Records] :
         table' = InsertBatch(table, list, now)
    /\ UNCHANGED <<now, plist, ins, othersOfTable>>

\* ---------------------------------------------------------------------
\* Proxy.url (models.py 155-174) and ProxyScrapper.parse_proxy
\* (proxy_scrapper.py 233-281; ProxyParser.__parse_proxylist, proxy_parser.py
\* 44-109, is the same code).  A string is a sequence of pieces of text:
\* the delimiters ":", "/" and "@" are pieces of their own, text without a
\* delimiter is one piece.  None and the empty string are both <<>>

\* the texts that validate_ip (utils.py 117-126) accepts
IPs == {"10.0.0.1", "192.168.1.20"}

\* ProxyProtocol(self.protocol).name.lower()
ProtocolName(protocol) ==
    CASE protocol = HTTP -> "http"
      [] protocol = SOCKS4 -> "socks4"
      [] protocol = SOCKS5 -> "socks5"

\* url(): f"{protocol}://{username}:{password}@{ip}:{port}", the
\* credentials only when both are set
Url(obj) ==
    <<ProtocolName(obj.protocol), ":", "/", "/">>
      \o (IF obj.username # <<>> /\ obj.password # <<>>
          THEN obj.username \o <<":">> \o obj.password \o <<"@">>
          ELSE <<>>)
      \o obj.ip \o <<":", ToString(obj.port)>>

\* the first index from i on at which sep occurs in s, 0 if it does not
RECURSIVE Find(_, _, _)
Find(s, sep, i) ==
    IF i + Len(sep) - 1 > Len(s) THEN 0
    ELSE IF SubSeq(s, i, i + Len(sep) - 1) = sep THEN i
    ELSE Find(s, sep, i + 1)

\* str.split(sep)
RECURSIVE Split(_, _)
Split(s, sep) ==
    LET i == Find(s, sep, 1)
    IN IF i = 0 THEN <<s>>
       ELSE <<SubSeq(s, 1, i - 1)>>
              \o Split(SubSeq(s, i + Len(sep), Len(s)), sep)

\* what stands for a raised ValueError
ParseFailed ==
    [ok |-> FALSE, ip |-> <<>>, port |-> <<>>, protocol |-> NoProtocol,
     username |-> <<>>, password |-> <<>>]

\* parse_proxy(line) of a scraper whose self.protocol is `protocol`
ParseProxy(line, protocol) ==
    LET hasProto == Find(line, <<":", "/", "/">>, 1) # 0
        name == Split(line, <<":", "/", "/">>)[1]
        proto == IF ~hasProto THEN protocol
                 ELSE IF name = <<"http">> THEN HTTP
                 ELSE IF name = <<"socks4">> THEN SOCKS4
                 ELSE IF name = <<"socks5">> THEN SOCKS5
                 ELSE NoProtocol
        line1 == IF hasProto THEN Split(line, <<":", "/", "/">>)[2] ELSE line
        hasAuth == Find(line1, <<"@">>, 1) # 0
        auth == Split(Split(line1, <<"@">>)[1], <<":">>)
        line2 == IF hasAuth THEN Split(line1, <<"@">>)[2] ELSE line1
        pieces == Split(line2, <<":">>)
    IN IF proto = NoProtocol THEN ParseFailed
       ELSE IF hasAuth /\ Len(auth) < 2 THEN ParseFailed
       ELSE IF Find(line2, <<":">>, 1) = 0 THEN ParseFailed
       ELSE IF ~(Len(pieces[1]) = 1 /\ pieces[1][1] \in IPs) THEN ParseFailed
       ELSE [ok |-> TRUE, ip |-> pieces[1], port |-> pieces[2],
             protocol |-> proto,
             username |-> IF hasAuth THEN auth[1] ELSE <<>>,
             password |-> IF hasAuth THEN auth[2] ELSE <<>>]

othersOfUrl == <<threadVars, startVars, requestVars, tableVars, probeVars,
                 moreVars>>

\* proxy.url()
FormatUrl ==
    /\ upc = "record"
    /\ purl' = Url(precord)
    /\ upc' = "url"
    /\ UNCHANGED <<precord, parsed, othersOfUrl>>

\* parse_proxy(line) by a scraper of any protocol
ParseUrl ==
    /\ upc = "url"
    /\ \E protocol \in {NoProtocol, HTTP, SOCKS4, SOCKS5} :
         parsed' = ParseProxy(purl, protocol)
    /\ upc' = "parsed"
    /\ UNCHANGED <<precord, purl, othersOfUrl>>

\* ---------------------------------------------------------------------
\* The probes' reading of a response: Google.run (testers/google.py 58-121),
\* AZenv.__test (testers/azenv.py 115-171), PoGoAPI.run (testers/pogo_api.py
\* 112-168), PoGoLogin.run, PoGoSignup.run.  The body of a response is
\* "empty", "valid" (what the probe looks for) or "invalid"

\* STATUS_BANLIST
StatusBanlist == {403, 409}

\* __parse_response / __analyze_headers on a body: PoGoAPI and PoGoLogin
\* return False without a status, the others set ERROR
ParseResponse(probe, body, status) ==
    IF body = "valid" THEN OK
    ELSE IF probe \in {"PoGoAPI", "PoGoLogin"} THEN status
    ELSE ERROR

\* the status of the ProxyTest after the if chain on the response
ResponseStatus(probe, code, body) ==
    IF probe = "Google"
    THEN IF body = "empty" THEN ERROR
         ELSE IF code # 200 THEN ERROR
         ELSE ParseResponse(probe, body, UNKNOWN)
    ELSE IF probe = "AZenv"
    THEN IF code \in StatusBanlist THEN BANNED
         ELSE IF body = "empty" THEN ERROR
         ELSE ParseResponse(probe, body, UNKNOWN)
    ELSE LET banned == IF code \in StatusBanlist THEN BANNED ELSE UNKNOWN
         IN IF body = "empty" THEN ERROR
            ELSE IF code # 200 THEN ERROR
            ELSE ParseResponse(probe, body, banned)

\* the except clauses of run: ConnectTimeout gives TIMEOUT; ReadTimeout is
\* a RequestException and no ConnectionError, and gives ERROR with the rest
\* (google.py 105-117, azenv.py 158-167); SOCKSVersion.run catches
\* socket.timeout, raised by connect, send and recv alike (94-103)
ExceptStatus(raised) ==
    IF raised \in {"ConnectTimeout", "socket.timeout"} THEN TIMEOUT
    ELSE ERROR

\* SOCKSVersion.run (81-92): a sniff that succeeds ("valid") sets
\* proxy.protocol and leaves proxy_test.status as constructed
SocksStatus(body) == IF body = "valid" THEN UNKNOWN ELSE ERROR

\* run(proxy): the request, the reading of the response or the handler of
\* the exception, proxy_test.save().  SOCKSVersion.run ends with
\* self.save(proxy_test) (111), a method neither it nor Test defines: the
\* AttributeError leaves run and no ProxyTest is returned
ProbeRun ==
    /\ ~ptest.saved
    /\ ~ptest.raised
    /\ LET socks == resp.probe = "SOCKSVersion" IN
       ptest' = [status |->
                   IF resp.raised # "none" THEN ExceptStatus(resp.raised)
                   ELSE IF socks THEN SocksStatus(resp.body)
                   ELSE ResponseStatus(resp.probe, resp.code, resp.body),
                 saved |-> ~socks,
                 raised |-> socks]
    /\ UNCHANGED <<resp, threadVars, startVars, requestVars, tableVars,
                   urlVars, moreVars>>

\* ---------------------------------------------------------------------
\* The refresh interval: config.py 222-226, 347-353, start.py 51-57, 108-133

\* floor of check_configuration (start.py 51, 55), in the unit it is given
MinRefresh == 15
\* default of --proxy-refresh-interval (config.py 225)
DefaultRefresh == 180
\* factor of int_minutes (config.py 353) and of check_configuration (57)
MinuteSeconds == 60
\* time.sleep(60) at the end of each turn of the loop of work (133)
LoopSleep == 60
\* the option is not on the command line
NotGiven == 0

\* the largest configured number of minutes
MaxMinutes == 16

\* int_minutes(arg), the `type` of the option: arg > 0, to seconds
IntMinutes(arg) == arg * MinuteSeconds

\* check_configuration: `if args.proxy_refresh_interval < 15` sets 15, then
\* `args.proxy_refresh_interval *= 60`
CheckInterval(v) == (IF v < MinRefresh THEN MinRefresh ELSE v) * MinuteSeconds

othersOfConf == <<threadVars, startVars, requestVars, tableVars, urlVars,
                  probeVars, iterVars, pipeVars, scanVars, delVars>>

\* Config.get_args: parse_args applies `type` to a value of the command
\* line; the default, an int, is stored as it is
GetArgs ==
    /\ gpc = "parse"
    /\ refreshInterval' = IF argMinutes = NotGiven THEN DefaultRefresh
                          ELSE IntMinutes(argMinutes)
    /\ gpc' = "check"
    /\ UNCHANGED <<argMinutes, elapsed, gap, othersOfConf>>

\* check_configuration(args) (start.py 51-57)
CheckConfiguration ==
    /\ gpc = "check"
    /\ refreshInterval' = CheckInterval(refreshInterval)
    /\ gpc' = "work"
    /\ UNCHANGED <<argMinutes, elapsed, gap, othersOfConf>>

\* one turn of the loop of work (start.py 117-133) up to the first
\* re-harvest: `if now > refresh_timer + args.proxy_refresh_interval`
\* reloads the lists and restarts the timer, then the thread sleeps
WorkLoop ==
    /\ gpc = "work"
    /\ gap = 0
    /\ IF elapsed > refreshInterval
       THEN /\ gap' = elapsed
            /\ elapsed' = LoopSleep
       ELSE /\ elapsed' = elapsed + LoopSleep
            /\ UNCHANGED gap
    /\ UNCHANGED <<gpc, argMinutes, refreshInterval, othersOfConf>>

\* ---------------------------------------------------------------------
\* One iteration of ProxyTester.run on a claimed proxy: cleanup (97-135),
\* then execute_tests (220-258)

\* default of --cleanup-period, days (config.py 198)
CleanupPeriod == 14
\* the percentages --cleanup-fail-ratio is configured with
Ratios == {50, 100}
\* the configured --cleanup-test-count
MinTests == 2
\* the most ProxyTests of the proxy in the cleanup period
MaxTests == 3
\* the ages in days around the cleanup period
Ages == (CleanupPeriod - 1)..(CleanupPeriod + 1)

\* the ProxyTest execute_tests makes up when nothing was recorded (252-256)
NotTested == [info |-> "Not tested", status |-> ERROR]

\* the three early returns of cleanup: proxy.created > min_age,
\* test_count < cleanup_test_count, fail_ratio < cleanup_fail_ratio;
\* fail_ratio is fail_count / test_count and the configured ratio a
\* percentage / 100
CleanupDue(age, tests, fails, ratio) ==
    /\ ~(age < CleanupPeriod)
    /\ ~(tests < MinTests)
    /\ ~(fails * 100 < ratio * tests)

\* execute_tests that stops at a failed probe whatever tester_force is
StopAfter_IgnoreForce(forced, interrupted, status) ==
    \/ status # OK
    \/ interrupted

\* the two breaks after a recorded ProxyTest (238-245)
StopAfter(forced, interrupted, status) ==
    \/ (~forced /\ status # OK)
    \/ interrupted

\* execute_tests that returns the list as it is
Returned_AsIs(results) == results

\* the end of execute_tests (250-258)
Returned(results) == IF results = <<>> THEN <<NotTested>> ELSE results

othersOfIter == <<threadVars, startVars, requestVars, tableVars, urlVars,
                  probeVars, confVars, pipeVars, scanVars, delVars>>

\* cleanup(proxy) as called by run (72-74): True (and `continue`) when
\* delete_instance removed the row; a DatabaseError of one of the storage
\* calls is logged by run, which goes on to execute_tests
CleanupCheck ==
    /\ xpc = "cleanup"
    /\ \/ /\ CleanupDue(xage, xtests, xfails, xratio)
          /\ \/ /\ xpc' = "deleted"
                /\ UNCHANGED xfault
             \/ \* row_count # 1: the row is gone already
                /\ xpc' = "tests"
                /\ xfault' = TRUE
       \/ /\ ~CleanupDue(xage, xtests, xfails, xratio)
          /\ xpc' = "tests"
          /\ UNCHANGED xfault
       \/ /\ xfault' = TRUE
          /\ xpc' = "tests"
    /\ UNCHANGED <<xage, xtests, xfails, xratio, xplan, xforce, xint, xidx,
                   xran, xres, othersOfIter>>

\* one turn of the loop of execute_tests (222-248); test.skip_test(proxy)
\* is the method of the base class, which returns False (test.py 99-100)
ExecuteStep ==
    /\ xpc = "tests"
    /\ xidx < Len(xplan)
    /\ LET probe == xidx + 1
           last == probe = Len(xplan)
       IN /\ xran' = Append(xran, probe)
          /\ xidx' = probe
          /\ \/ \* run returned None
                /\ xres' = IF last THEN Returned(xres) ELSE xres
                /\ xpc' = IF last THEN "done" ELSE "tests"
                /\ UNCHANGED xint
             \/ \* run, or the save in it, raised
                /\ xint' = TRUE
                /\ xres' = Returned(xres)
                /\ xpc' = "done"
             \/ \E st \in ProbeStatuses :
                  LET res == Append(xres, [info |-> xplan[probe],
                                           status |-> st])
                      stop == StopAfter(xforce, xint, st) \/ last
                  IN /\ xres' = IF stop THEN Returned(res) ELSE res
                     /\ xpc' = IF stop THEN "done" ELSE "tests"
                     /\ UNCHANGED xint
    /\ UNCHANGED <<xage, xtests, xfails, xratio, xplan, xforce, xfault,
                   othersOfIter>>

\* TestManager.stop (191-192) while the tester is in its iteration
IterInterrupt ==
    /\ xpc \in {"cleanup", "tests"}
    /\ ~xint
    /\ xint' = TRUE
    /\ UNCHANGED <<xpc, xage, xtests, xfails, xratio, xplan, xforce, xfault,
                   xidx, xran, xres, othersOfIter>>

\* ---------------------------------------------------------------------
\* One pipe of DatabaseQueue with its producer and its consumer: the
\* fetch-for-test pipe (db.py 234, 244-249, 262-269), the update-proxy pipe
\* (335, 342-378) or the proxytest pipe (415, 422-450).  The items are
\* numbered in the order of their put

\* the largest args.manager_testers
MaxPool == 2
\* puts attempted beyond the capacity of the pipe
MaxExtra == 2

PipeKinds == {"fetch", "update", "proxytest"}

\* queue.Queue(maxsize=self.args.manager_testers * 2 | 10 | 50)
Maxsize(kind, n) ==
    IF kind = "fetch" THEN n * FetchFactor
    ELSE IF kind = "update" THEN n * UpdateFactor
    ELSE n * ProxyTestFactor

\* a put that does not look at maxsize
HasRoom_Always(q, maxsize) == TRUE

\* Queue.put: the item is appended once qsize() < maxsize; put(timeout=1)
\* raises queue.Full when that does not happen in time
HasRoom(q, maxsize) == Len(q) < maxsize

\* update_db of the update workers with the threshold kept at its argument
PipeThreshold_AsGiven(kind, n, interrupted) ==
    IF interrupted THEN 0 ELSE Maxsize(kind, n) + FlushThreshold

\* update_db(threshold) as called by run (345-346, 391-396, 425-426,
\* 463-468): threshold = min(self.queue.maxsize-1, threshold), the argument
\* being self.threshold, 10, or 0 once the interrupt is set
PipeThreshold(kind, n, interrupted) ==
    LET th == IF interrupted THEN 0 ELSE FlushThreshold
    IN IF Maxsize(kind, n) - 1 < th THEN Maxsize(kind, n) - 1 ELSE th

\* a drain that forgets the backlog of the failed flush
Drained_PipeOnly(backlog, q) == q

\* a drain that puts the new items in front of the backlog
Drained_NewestFirst(backlog, q) == q \o backlog

\* `while not self.queue.empty(): self.backlog.append(self.queue.get(
\* block=False))` (350-352, 430-432)
Drained(backlog, q) == backlog \o q

othersOfPipe == <<threadVars, startVars, requestVars, tableVars, urlVars,
                  probeVars, confVars, iterVars, scanVars, delVars>>

\* the producer: put(item, timeout=1) (342-343, 422-423), put(proxy) of
\* fill_queue on the fetch pipe (268).  On a full pipe nothing is appended
PipePut ==
    /\ pnext < plimit
    /\ HasRoom(pq, Maxsize(pkind, pn))
    /\ pq' = Append(pq, pnext + 1)
    /\ pnext' = pnext + 1
    /\ UNCHANGED <<pkind, pn, ppc, pbacklog, pstored, plimit, pfaults, pint,
                   othersOfPipe>>

\* get_proxy (244-249): the consumer of the fetch pipe takes the head
PipeGet ==
    /\ pkind = "fetch"
    /\ pq # <<>>
    /\ pstored' = Append(pstored, Head(pq))
    /\ pq' = Tail(pq)
    /\ UNCHANGED <<pkind, pn, ppc, pbacklog, pnext, plimit, pfaults, pint,
                   othersOfPipe>>

\* one turn of the loop of run of an update worker (383-402, 455-474) with
\* its update_db: below the threshold it sleeps and returns True; otherwise
\* the pipe is drained to the end of the backlog and one transaction
\* writes the backlog in its order, or fails before or at the commit
PipeRun ==
    /\ pkind # "fetch"
    /\ ppc = "run"
    /\ LET all == Drained(pbacklog, pq)
           after == IF pint THEN "final" ELSE "run"
       IN IF Len(all) < PipeThreshold(pkind, pn, pint)
          THEN /\ ppc' = after
               /\ UNCHANGED <<pq, pbacklog, pstored, pfaults>>
          ELSE /\ pq' = <<>>
               /\ \/ /\ pstored' = pstored \o all
                     /\ pbacklog' = <<>>
                     /\ ppc' = after
                     /\ UNCHANGED pfaults
                  \/ /\ pfaults > 0
                     /\ pfaults' = pfaults - 1
                     /\ \/ pbacklog' = all
                        \/ pbacklog' = <<>>
                     /\ UNCHANGED <<pstored, ppc>>
    /\ UNCHANGED <<pkind, pn, pnext, plimit, pint, othersOfPipe>>

\* the update_db() after the loop (403, 475), its result ignored
PipeFinal ==
    /\ pkind # "fetch"
    /\ ppc = "final"
    /\ LET all == Drained(pbacklog, pq) IN
       /\ pq' = <<>>
       /\ \/ /\ pstored' = pstored \o all
             /\ pbacklog' = <<>>
             /\ UNCHANGED pfaults
          \/ /\ pfaults > 0
             /\ pfaults' = pfaults - 1
             /\ \/ pbacklog' = all
                \/ pbacklog' = <<>>
             /\ UNCHANGED pstored
    /\ ppc' = "done"
    /\ UNCHANGED <<pkind, pn, pnext, plimit, pint, othersOfPipe>>

\* DatabaseQueue.stop (588-589)
PipeStop ==
    /\ ~pint
    /\ pint' = TRUE
    /\ UNCHANGED <<pkind, pn, ppc, pq, pbacklog, pstored, pnext, plimit,
                   pfaults, othersOfPipe>>

\* ---------------------------------------------------------------------
\* Proxy.need_scan and Proxy.get_for_scan with a protocol filter
\* (models.py 215-248)

Protocols == {HTTP, SOCKS4, SOCKS5}
\* the filters the queries are called with: none, one protocol, two
Filters == {{}, {HTTP}, {SOCKS4, SOCKS5}}

\* a query that ignores the `protocols` argument
InFilter_Any(p, protocols) == TRUE

\* `if protocols: conditions &= (Proxy.protocol << protocols)` (221-222,
\* 240-241)
InFilter(p, protocols) == protocols = {} \/ vproto[p] \in protocols

othersOfScan == <<threadVars, startVars, requestVars, tableVars, urlVars,
                  probeVars, confVars, iterVars, pipeVars, delVars>>

\* get_for_scan(protocols): query.first() of the matching rows in random
\* order, None when no row matches (233-248)
GetForScan ==
    /\ LET rows == {p \in Proxies : ForScan(p) /\ InFilter(p, vfilter)}
       IN \/ vgot' \in rows
          \/ rows = {} /\ vgot' = NoProxy
    /\ UNCHANGED <<vproto, vfilter, vlist, othersOfScan>>

\* need_scan(limit, protocols): the matching rows by status, then by
\* modified, cut at limit (215-231)
NeedScanCall ==
    /\ \E limit \in 1..NumProxies :
         vlist' = TakeOrdered({p \in Proxies :
                                 NeedScan(p) /\ InFilter(p, vfilter)}, limit)
    /\ UNCHANGED <<vproto, vfilter, vgot, othersOfScan>>

\* ---------------------------------------------------------------------
\* Proxy.delete_failed (models.py 464-517)

\* the defaults of fail_count and test_count, and fail_rate 0.9 in percent
DeleteFailCount == 3
DeleteTestCount == 20
DeleteFailRate == 90

\* a Proxy row as delete_failed sees it: old is created < min_age, fails
\* the number of its ProxyTests in the window (newer than fail_days, older
\* than 30 minutes) with a status other than OK
FailedRow(st, old, tc, fc, fails) ==
    [status |-> st, old |-> old, test_count |-> tc, fail_count |-> fc,
     fails |-> fails, deleted |-> FALSE]

\* the HAVING of the subquery (492) and the WHERE of the delete (504-508)
DeleteCondition(row) ==
    /\ row.fails > DeleteFailCount
    /\ row.old
    /\ row.test_count > DeleteTestCount
    /\ row.fail_count * 100 > DeleteFailRate * row.test_count

othersOfDelete == <<threadVars, startVars, requestVars, tableVars, urlVars,
                    probeVars, confVars, iterVars, pipeVars, scanVars>>

\* delete_failed: the ids of the subquery, then the deletes of the batches;
\* returns the number of rows deleted
DeleteFailed ==
    /\ dcount = NoRc
    /\ dtable' = [p \in Proxies |->
                    IF DeleteCondition(dtable[p])
                    THEN [dtable[p] EXCEPT !.deleted = TRUE]
                    ELSE dtable[p]]
    /\ dcount' = Cardinality({p \in Proxies : DeleteCondition(dtable[p])})
    /\ UNCHANGED <<othersOfDelete>>

\* ---------------------------------------------------------------------
\* Initial states

InitCallers ==
    /\ lpc = [p \in Procs |-> "idle"]
    /\ lcall = [p \in Procs |-> NoCall]

InitTesters ==
    /\ tpc = [t \in Testers |-> "scan"]
    /\ tobj = [t \in Testers |-> NoObj]
    /\ tidx = [t \in Testers |-> 0]
    /\ tres = [t \in Testers |-> <<>>]
    /\ trc = [t \in Testers |-> NoRc]
    /\ mgrInterrupt = FALSE
    /\ force = FALSE

InitScraper ==
    /\ spc = "idle"
    /\ sobj = NoObj
    /\ spushes = 0

InitBuf ==
    /\ wQueue = [w \in BufWorkers |-> <<>>]
    /\ wBacklog = [w \in BufWorkers |-> <<>>]
    /\ wErr = [w \in BufWorkers |-> 0]
    /\ wPc = [w \in BufWorkers |-> "run"]

InitInt ==
    /\ qInterrupt = [p \in Procs |-> FALSE]
    /\ qSetter = {}

InitFetch ==
    /\ fpc = [p \in Procs |-> "head"]
    /\ fErr = [p \in Procs |-> 0]
    /\ fQueue = [p \in Procs |-> <<>>]

InitClean ==
    /\ cpc = [p \in Procs |-> "head"]
    /\ cErr = [p \in Procs |-> 0]

\* App before start() with the default arguments (config.py)
InitStart ==
    /\ testPogo = FALSE
    /\ testAnonymity = FALSE
    /\ valid = [c \in ProbeClasses |-> TRUE]
    /\ apc = "launch"
    /\ launched = 0
    /\ exitCode = NoExit

\* scraper threads at the entry of request_url
InitRequest ==
    /\ rpc = [s \in Scrapers |-> "head"]
    /\ rErr = [s \in Scrapers |-> 0]

\* an empty table proxy, nothing to insert
InitTable ==
    /\ table = {}
    /\ plist = <<>>
    /\ ins = 0

\* a probe of the default test cycle about to run; its request will come
\* back with a page
InitProbe ==
    /\ resp = [probe |-> "Google", raised |-> "none", code |-> 200,
               body |-> "valid"]
    /\ ptest = [status |-> UNKNOWN, saved |-> FALSE, raised |-> FALSE]

\* no Proxy formatted yet
InitUrl ==
    /\ upc = "record"
    /\ precord = ParseFailed
    /\ purl = <<>>
    /\ parsed = ParseFailed

\* the worker threads as constructed, the lock row free
InitCore ==
    /\ now = StartTime
    /\ read_lock = NULL
    /\ InitCallers
    /\ InitTesters
    /\ InitScraper
    /\ InitBuf
    /\ InitInt
    /\ InitFetch
    /\ InitClean

\* the process before its arguments are parsed
InitConf ==
    /\ gpc = "parse"
    /\ argMinutes = NotGiven
    /\ refreshInterval = DefaultRefresh
    /\ elapsed = 0
    /\ gap = 0

\* a tester that has just claimed a young proxy, one probe planned
InitIter ==
    /\ xpc = "cleanup"
    /\ xage = 0
    /\ xtests = 0
    /\ xfails = 0
    /\ xratio = 100
    /\ xplan = PlanTestCycle(FALSE, FALSE)
    /\ xforce = FALSE
    /\ xint = FALSE
    /\ xfault = FALSE
    /\ xidx = 0
    /\ xran = <<>>
    /\ xres = <<>>

\* an empty pipe of a pool of one tester
InitPipe ==
    /\ pkind = "update"
    /\ pn = 1
    /\ ppc = "run"
    /\ pq = <<>>
    /\ pbacklog = <<>>
    /\ pstored = <<>>
    /\ pnext = 0
    /\ plimit = 0
    /\ pfaults = 0
    /\ pint = FALSE

\* no protocol filter, nothing queried
InitScanArgs ==
    /\ vproto = [p \in Proxies |-> HTTP]
    /\ vfilter = {}
    /\ vgot = NoProxy
    /\ vlist = <<>>

\* delete_failed not called yet, no row that it would look at
InitDelete ==
    /\ dtable = [p \in Proxies |-> FailedRow(OK, FALSE, 0, 0, 0)]
    /\ dcount = NoRc

InitMore ==
    /\ InitConf
    /\ InitIter
    /\ InitPipe
    /\ InitScanArgs
    /\ InitDelete

\* the threads as constructed, the lock row free
InitThreads ==
    /\ InitCore
    /\ InitStart
    /\ InitRequest
    /\ InitTable
    /\ InitUrl
    /\ InitProbe
    /\ InitMore

\* freshly inserted proxies, due for a scan
FreshRows == [p \in Proxies |-> Row(UNKNOWN, 0, 0, OldTime)]

\* tables of rows left by earlier runs with the given statuses
RowsOf(S) == [Proxies -> {Row(st, 0, 0, OldTime) : st \in S}]

Init ==
    /\ InitThreads
    /\ lock_modified \in {OldTime, StartTime}
    /\ db = FreshRows
    /\ budget = 0

\* ---------------------------------------------------------------------
\* The lock primitives called directly by the processes

NextLock ==
    \/ \E p \in Procs : LockInvoke(p)
    \/ \E p \in Procs : LockStmt1(p)
    \/ \E p \in Procs : LockStmt2(p)
    \/ \E p \in Procs : UnlockDatabase(p)
    \/ TickSecond

SpecLock == Init /\ [][NextLock]_vars

\* lock_database only: nobody releases
NextLockRace ==
    \/ \E p \in Procs : LockInvoke(p)
    \/ \E p \in Procs : LockStmt1(p)
    \/ \E p \in Procs : LockStmt2(p)
    \/ TickSecond

SpecLockRace == Init /\ [][NextLockRace]_vars

\* ---------------------------------------------------------------------
\* Testers racing get_for_scan and lock_for_testing, nothing written back

InitRace ==
    /\ InitThreads
    /\ lock_modified = OldTime
    /\ db \in RowsOf({UNKNOWN, OK, TIMEOUT, ERROR, BANNED})
    /\ budget = 0

NextRace ==
    \/ \E t \in Testers : TesterScan(t)
    \/ \E t \in Testers : LockForTesting(t)

SpecRace == InitRace /\ [][NextRace]_vars

\* ---------------------------------------------------------------------
\* Testers, the scraper using an upstream proxy and the update-proxy worker

\* one proxy due for a scan, the others tested a moment ago
InitTest ==
    /\ InitThreads
    /\ lock_modified = OldTime
    /\ db = [p \in Proxies |-> IF p = 1 THEN Row(UNKNOWN, 0, 0, OldTime)
                                ELSE Row(OK, 0, 0, StartTime)]
    /\ budget = MaxFaults

NextTest ==
    \/ \E t \in Testers : TesterScan(t)
    \/ \E t \in Testers : LockForTesting(t)
    \/ \E t \in Testers : RunProbe(t)
    \/ \E t \in Testers : UpdateDatabase(t)
    \/ ScraperGetProxy
    \/ ScraperUpdateProxy
    \/ BufRun("update")
    \/ BufFinal("update")
    \/ StopQueue(MainProc)

SpecTest == InitTest /\ [][NextTest]_vars

\* ---------------------------------------------------------------------
\* The fetch workers of the processes

InitFetchSpec ==
    /\ InitThreads
    /\ lock_modified = OldTime
    /\ db \in RowsOf({UNKNOWN, OK, ERROR})
    /\ budget = MaxFaults

NextFetch ==
    \/ \E p \in Procs : FetchHead(p)
    \/ \E p \in Procs : FetchLock1(p)
    \/ \E p \in Procs : FetchLock2(p)
    \/ \E p \in Procs : FetchFill(p)
    \/ \E p \in Procs : FetchRelease(p)
    \/ \E p \in Procs : StopQueue(p)
    \/ TickSecond

SpecFetch == InitFetchSpec /\ [][NextFetch]_vars

\* ---------------------------------------------------------------------
\* The cleanup workers of the processes; rows left TESTING by testers that
\* ended at a failed update_database

InitCleanup ==
    /\ InitThreads
    /\ lock_modified = OldTime
    /\ db \in [Proxies -> {Row(st, 0, 0, md) : st \in {TESTING, OK},
                                               md \in {OldTime, StartTime}}]
    /\ budget = MaxFaults

NextCleanup ==
    \/ \E p \in Procs : CleanupHead(p)
    \/ \E p \in Procs : CleanupLock1(p)
    \/ \E p \in Procs : CleanupLock2(p)
    \/ \E p \in Procs : CleanupPass(p)
    \/ TickSecond

SpecCleanup == InitCleanup /\ [][NextCleanup]_vars

\* every cleanup thread is scheduled whenever it can take a step, and the
\* clock advances
FairCleanup ==
    /\ \A p \in Procs : WF_vars(CleanupHead(p))
    /\ \A p \in Procs : WF_vars(CleanupLock1(p))
    /\ \A p \in Procs : WF_vars(CleanupLock2(p))
    /\ \A p \in Procs : WF_vars(CleanupPass(p))
    /\ WF_vars(TickSecond)

FairSpecCleanup == SpecCleanup /\ FairCleanup

\* ---------------------------------------------------------------------
\* The five queue workers of one process under storage faults

\* faults enough for one worker to fail until it gives up
EscalationFaults == MaxErrors + 1 + MaxFaults

InitWorkers ==
    /\ InitThreads
    /\ lock_modified = OldTime
    /\ db = FreshRows
    /\ budget = EscalationFaults

NextWorkers ==
    \/ \E w \in BufWorkers : BufRun(w)
    \/ \E w \in BufWorkers : BufFinal(w)
    \/ ScraperGetProxy
    \/ ScraperUpdateProxy
    \/ ScraperInsert
    \/ FetchHead(MainProc)
    \/ FetchLock1(MainProc)
    \/ FetchLock2(MainProc)
    \/ FetchFill(MainProc)
    \/ FetchRelease(MainProc)
    \/ CleanupHead(MainProc)
    \/ CleanupLock1(MainProc)
    \/ CleanupLock2(MainProc)
    \/ CleanupPass(MainProc)
    \/ StopQueue(MainProc)

SpecWorkers == InitWorkers /\ [][NextWorkers]_vars

\* ---------------------------------------------------------------------
\* The three buffered workers and their producer up to shutdown

InitFlush ==
    /\ InitThreads
    /\ lock_modified = OldTime
    /\ db = FreshRows
    /\ budget = EscalationFaults

NextFlush ==
    \/ \E w \in BufWorkers : BufRun(w)
    \/ \E w \in BufWorkers : BufFinal(w)
    \/ ScraperGetProxy
    \/ ScraperUpdateProxy
    \/ ScraperInsert
    \/ StopQueue(MainProc)

SpecFlush == InitFlush /\ [][NextFlush]_vars

\* every worker thread is scheduled again: its sleeps are finite (db.py 171,
\* 220, 348, 397) and a storage call returns or raises
FairFlush ==
    \A w \in BufWorkers : WF_vars(BufRun(w)) /\ WF_vars(BufFinal(w))

FairSpecFlush == SpecFlush /\ FairFlush

\* ---------------------------------------------------------------------
\* Startup of the application over the outcomes of validate()

InitStartSpec ==
    /\ InitCore
    /\ lock_modified = OldTime
    /\ db = FreshRows
    /\ budget = 0
    /\ testPogo \in BOOLEAN
    /\ testAnonymity \in BOOLEAN
    /\ valid \in [ProbeClasses -> BOOLEAN]
    /\ apc = "launch"
    /\ launched = 0
    /\ exitCode = NoExit
    /\ InitRequest
    /\ InitTable
    /\ InitUrl
    /\ InitProbe
    /\ InitMore

NextStart ==
    \/ AppLaunch
    \/ LaunchTester
    \/ AppInterrupt
    \/ AppFinally

SpecStart == InitStartSpec /\ [][NextStart]_vars

\* ---------------------------------------------------------------------
\* Scraper threads requesting their pages

NextRequest ==
    \/ \E s \in Scrapers : RequestHead(s)
    \/ \E s \in Scrapers : RequestTry(s)
    \/ \E s \in Scrapers : ScrapEnd(s)
    \/ StopQueue(MainProc)

\* a scraper thread is scheduled again: every request has a timeout
\* (proxy_scrapper.py 126-134)
FairSpecRequest ==
    /\ Init
    /\ [][NextRequest]_vars
    /\ \A s \in Scrapers :
         WF_vars(RequestHead(s)) /\ WF_vars(RequestTry(s))
            /\ WF_vars(ScrapEnd(s))

\* ---------------------------------------------------------------------
\* A proxy list inserted again and again while time passes

\* a table with a row tested earlier, or none, and any list to insert
InitInsertTwice ==
    /\ InitCore
    /\ InitStart
    /\ InitRequest
    /\ InitUrl
    /\ InitProbe
    /\ InitMore
    /\ lock_modified = OldTime
    /\ db = FreshRows
    /\ budget = 0
    /\ table \in {{}, {[id |-> 1, ip |-> 1, port |-> 1, protocol |-> HTTP,
                       username |-> 0, password |-> 0, status |-> OK,
                       modified |-> OldTime]}}
    /\ \E n \in 0..MaxList : plist \in [1..n -> Records]
    /\ ins = 0

NextInsertTwice ==
    \/ InsertList
    \/ TickSecond

SpecInsertTwice == InitInsertTwice /\ [][NextInsertTwice]_vars

\* ---------------------------------------------------------------------
\* Harvesters inserting whatever they have scraped

\* a table with one row tested earlier
InitHarvest ==
    /\ InitCore
    /\ InitStart
    /\ InitRequest
    /\ InitUrl
    /\ InitProbe
    /\ InitMore
    /\ lock_modified = OldTime
    /\ db = FreshRows
    /\ budget = 0
    /\ table = {[id |-> 1, ip |-> 1, port |-> 1, protocol |-> HTTP,
                 username |-> 0, password |-> 0, status |-> OK,
                 modified |-> OldTime]}
    /\ plist = <<>>
    /\ ins = 0

NextHarvest ==
    \/ HarvestInsert

SpecHarvest == InitHarvest /\ [][NextHarvest]_vars

\* ---------------------------------------------------------------------
\* Proxy records formatted and parsed again

\* a text of one to MaxText pieces, delimiters among them
Texts == UNION {[1..n -> {"a", "b", ":", "@"}] : n \in 1..MaxText}

\* any Proxy with a protocol, an IPv4 address, a port, and no credentials or
\* a username and a password
InitRoundTrip ==
    /\ InitCore
    /\ InitStart
    /\ InitRequest
    /\ InitTable
    /\ InitProbe
    /\ InitMore
    /\ lock_modified = OldTime
    /\ db = FreshRows
    /\ budget = 0
    /\ upc = "record"
    /\ \E pr \in {HTTP, SOCKS4, SOCKS5}, ip \in IPs, port \in {80, 8080},
          u \in Texts \cup {<<>>}, pw \in Texts \cup {<<>>} :
         /\ (u = <<>>) <=> (pw = <<>>)
         /\ precord = [ok |-> TRUE, ip |-> <<ip>>, port |-> port,
                       protocol |-> pr, username |-> u, password |-> pw]
    /\ purl = <<>>
    /\ parsed = ParseFailed

NextRoundTrip ==
    \/ FormatUrl
    \/ ParseUrl

SpecRoundTrip == InitRoundTrip /\ [][NextRoundTrip]_vars

\* ---------------------------------------------------------------------
\* Every probe on every kind of response

InitProbes ==
    /\ InitCore
    /\ InitStart
    /\ InitRequest
    /\ InitTable
    /\ InitUrl
    /\ lock_modified = OldTime
    /\ db = FreshRows
    /\ budget = 0
    /\ resp \in [probe : ProbeClasses,
                 raised : {"none", "ConnectTimeout", "ReadTimeout",
                           "ConnectionError"},
                 code : {200, 403, 409, 503},
                 body : {"empty", "valid", "invalid"}]
               \cup [probe : {"SOCKSVersion"},
                     raised : {"none", "socket.timeout", "socket.error"},
                     code : {200},
                     body : {"valid", "invalid"}]
    /\ ptest = [status |-> UNKNOWN, saved |-> FALSE, raised |-> FALSE]
    /\ InitMore

NextProbes ==
    \/ ProbeRun

SpecProbes == InitProbes /\ [][NextProbes]_vars

\* ---------------------------------------------------------------------
\* Testers next to the insert-proxy worker under repeated storage faults:
\* DatabaseQueue.interrupt (db.py 569) and TestManager.interrupt
\* (test_manager.py 35) are two Event objects

InitInterrupt ==
    /\ InitThreads
    /\ lock_modified = OldTime
    /\ db = [p \in Proxies |-> IF p = 1 THEN Row(UNKNOWN, 0, 0, OldTime)
                                ELSE Row(OK, 0, 0, StartTime)]
    /\ budget = EscalationFaults

NextInterrupt ==
    \/ \E t \in Testers : TesterScan(t)
    \/ \E t \in Testers : LockForTesting(t)
    \/ \E t \in Testers : RunProbe(t)
    \/ \E t \in Testers : UpdateDatabase(t)
    \/ ScraperInsert
    \/ BufRun("insert")
    \/ BufFinal("insert")

SpecInterrupt == InitInterrupt /\ [][NextInterrupt]_vars

\* ---------------------------------------------------------------------
\* The refresh interval from the command line to the first re-harvest

InitRefresh ==
    /\ InitCore
    /\ InitStart
    /\ InitRequest
    /\ InitTable
    /\ InitUrl
    /\ InitProbe
    /\ lock_modified = OldTime
    /\ db = FreshRows
    /\ budget = 0
    /\ gpc = "parse"
    /\ InitIter
    /\ InitPipe
    /\ InitScanArgs
    /\ InitDelete
    /\ argMinutes \in {NotGiven} \cup (1..MaxMinutes)
    /\ refreshInterval = DefaultRefresh
    /\ elapsed = 0
    /\ gap = 0

NextRefresh ==
    \/ GetArgs
    \/ CheckConfiguration
    \/ WorkLoop

SpecRefresh == InitRefresh /\ [][NextRefresh]_vars

\* ---------------------------------------------------------------------
\* One tester iteration: proxies around the cleanup limits with one probe
\* planned, and a young proxy under every test cycle

InitIteration ==
    /\ InitCore
    /\ InitStart
    /\ InitRequest
    /\ InitTable
    /\ InitUrl
    /\ InitProbe
    /\ InitConf
    /\ InitPipe
    /\ InitScanArgs
    /\ InitDelete
    /\ lock_modified = OldTime
    /\ db = FreshRows
    /\ budget = 0
    /\ xpc = "cleanup"
    /\ xint = FALSE
    /\ xfault = FALSE
    /\ xidx = 0
    /\ xran = <<>>
    /\ xres = <<>>
    /\ \/ /\ xage \in Ages
          /\ xtests \in 0..MaxTests
          /\ xfails \in 0..xtests
          /\ xratio \in Ratios
          /\ xplan = PlanTestCycle(FALSE, FALSE)
          /\ xforce = FALSE
       \/ /\ xage = 0
          /\ xtests = 0
          /\ xfails = 0
          /\ xratio = 100
          /\ xplan \in {PlanTestCycle(pogo, anonymity) :
                            pogo \in BOOLEAN, anonymity \in BOOLEAN}
          /\ xforce \in BOOLEAN

NextIteration ==
    \/ CleanupCheck
    \/ ExecuteStep
    \/ IterInterrupt

SpecIteration == InitIteration /\ [][NextIteration]_vars

\* ---------------------------------------------------------------------
\* Each pipe of DatabaseQueue for every size of the tester pool

InitPipes ==
    /\ InitCore
    /\ InitStart
    /\ InitRequest
    /\ InitTable
    /\ InitUrl
    /\ InitProbe
    /\ InitConf
    /\ InitIter
    /\ InitScanArgs
    /\ InitDelete
    /\ lock_modified = OldTime
    /\ db = FreshRows
    /\ budget = 0
    /\ ppc = "run"
    /\ pq = <<>>
    /\ pbacklog = <<>>
    /\ pstored = <<>>
    /\ pnext = 0
    /\ pint = FALSE
    /\ \/ \* every pipe up to its capacity and beyond, storage working
          /\ pkind \in PipeKinds
          /\ pn \in 1..MaxPool
          /\ plimit = Maxsize(pkind, pn) + MaxExtra
          /\ pfaults = 0
       \/ \* an update worker up to its threshold and beyond, with faults
          /\ pkind \in PipeKinds \ {"fetch"}
          /\ pn = 1
          /\ plimit = FlushThreshold + MaxExtra
          /\ pfaults = MaxFaults

NextPipes ==
    \/ PipePut
    \/ PipeGet
    \/ PipeRun
    \/ PipeFinal
    \/ PipeStop

SpecPipes == InitPipes /\ [][NextPipes]_vars

\* the worker thread is scheduled again: its sleeps are finite (348, 397,
\* 428, 469) and a storage call returns or raises
FairSpecPipes == SpecPipes /\ WF_vars(PipeRun) /\ WF_vars(PipeFinal)

\* ---------------------------------------------------------------------
\* The testers and TestManager.stop: the interrupt raised while a tester
\* is anywhere in its iteration, next to one run of execute_tests on a
\* claimed proxy with the force flag on, so that only the interrupt ends
\* the cycle early

InitShutdown ==
    /\ InitCore
    /\ InitStart
    /\ InitRequest
    /\ InitTable
    /\ InitUrl
    /\ InitProbe
    /\ InitConf
    /\ InitPipe
    /\ InitScanArgs
    /\ InitDelete
    /\ lock_modified = OldTime
    /\ db = [p \in Proxies |-> IF p = 1 THEN Row(UNKNOWN, 0, 0, OldTime)
                                ELSE Row(OK, 0, 0, StartTime)]
    /\ budget = MaxFaults
    /\ xpc = "tests"
    /\ xage = 0
    /\ xtests = 0
    /\ xfails = 0
    /\ xratio = 100
    /\ xplan = PlanTestCycle(FALSE, TRUE)
    /\ xforce = TRUE
    /\ xint = FALSE
    /\ xfault = FALSE
    /\ xidx = 0
    /\ xran = <<>>
    /\ xres = <<>>

NextShutdown ==
    \/ \E t \in Testers : TesterScan(t)
    \/ \E t \in Testers : LockForTesting(t)
    \/ \E t \in Testers : RunProbe(t)
    \/ \E t \in Testers : UpdateDatabase(t)
    \/ StopManager
    \/ ExecuteStep
    \/ IterInterrupt

SpecShutdown == InitShutdown /\ [][NextShutdown]_vars

\* ---------------------------------------------------------------------
\* The two scan queries on every table of rows around the scan interval

\* modified long ago, exactly one scan interval ago, and now
ScanTimes == {OldTime, StartTime - ScanAge, StartTime}

InitScan ==
    /\ InitCore
    /\ InitStart
    /\ InitRequest
    /\ InitTable
    /\ InitUrl
    /\ InitProbe
    /\ InitConf
    /\ InitIter
    /\ InitPipe
    /\ InitDelete
    /\ lock_modified = OldTime
    /\ budget = 0
    /\ db \in [Proxies -> {Row(st, 0, 0, md) : st \in Statuses,
                                               md \in ScanTimes}]
    /\ vproto \in [Proxies -> Protocols]
    /\ vfilter \in Filters
    /\ vgot = NoProxy
    /\ vlist = <<>>

NextScan ==
    \/ GetForScan
    \/ NeedScanCall

SpecScan == InitScan /\ [][NextScan]_vars

\* ---------------------------------------------------------------------
\* delete_failed on every table of rows around its limits

InitDeletion ==
    /\ InitCore
    /\ InitStart
    /\ InitRequest
    /\ InitTable
    /\ InitUrl
    /\ InitProbe
    /\ InitConf
    /\ InitIter
    /\ InitPipe
    /\ InitScanArgs
    /\ lock_modified = OldTime
    /\ db = FreshRows
    /\ budget = 0
    /\ dtable \in [Proxies ->
          {FailedRow(st, old, tc, fc, fails) :
              st \in {TESTING, OK, ERROR}, old \in BOOLEAN,
              tc \in DeleteTestCount..(DeleteTestCount + 1),
              fc \in (DeleteTestCount - 2)..DeleteTestCount,
              fails \in DeleteFailCount..(DeleteFailCount + 1)}]
    /\ dcount = NoRc

NextDeletion == DeleteFailed

SpecDeletion == InitDeletion /\ [][NextDeletion]_vars

\* ---------------------------------------------------------------------
\* Claims

\* C1: no two testers hold a claim on the same proxy at once: the windows
\* between a successful lock_for_testing and the write-back of the result
\* never overlap.  (SpecTest)
C1_NoOverlap ==
    \A t1 \in Testers : \A t2 \in Testers :
        (t1 # t2 /\ Holds(t1) /\ Holds(t2)) => tobj[t1].id # tobj[t2].id

\* C2: of the callers that read the same row with the same status and have
\* called lock_for_testing, exactly one got row_count 1.  (SpecRace)
C2_OneWinner ==
    \A p \in Proxies :
        LET callers == {t \in Testers : tobj[t].id = p /\ trc[t] # NoRc}
        IN callers # {} =>
             Cardinality({t \in callers : trc[t] = 1}) = 1

\* two testers read the same row with the same status, one won, one lost
C2_Witness ==
    \E t1 \in Testers : \E t2 \in Testers :
        /\ tobj[t1].id = tobj[t2].id
        /\ tobj[t1].id # NoProxy
        /\ tobj[t1].status = tobj[t2].status
        /\ trc[t1] = 1
        /\ trc[t2] = 0

\* C3: while a tester holds its claim on a proxy, the row keeps what the
\* claim wrote: status TESTING; nobody else overwrites it.  (SpecTest)
C3_ClaimKept ==
    \A t \in Testers : Holds(t) => db[tobj[t].id].status = TESTING

\* C4: in storage fail_count never exceeds test_count.  (SpecTest)
C4_FailLeTest ==
    \A p \in Proxies : db[p].fail_count <= db[p].test_count

\* a row written by the update-proxy worker and by a tester, every probe and
\* request counted as failed
C4_Witness ==
    \E p \in Proxies :
        /\ db[p].test_count = MaxCount
        /\ db[p].fail_count = MaxCount
        /\ spushes = MaxPushes
        /\ wQueue["update"] = <<>>
        /\ wBacklog["update"] = <<>>

\* C5: a proxy that is TESTING and older than the stuck threshold is
\* eventually set to ERROR by the cleanup worker.  (FairSpecCleanup)
C5_StuckCleared ==
    \A p \in Proxies :
        (db[p].status = TESTING /\ db[p].modified < now - StuckAge)
            ~> (db[p].status = ERROR)

\* C6: when all the processes called lock_database while the lock was free,
\* each deciding within the lease of the other's write, exactly one call
\* returned True.  (SpecLockRace)
C6_OneTrue ==
    (\A p \in Procs : /\ lcall[p].op = "lock"
                      /\ lcall[p].free
                      /\ lcall[p].age # "old")
        => Cardinality({p \in Procs : lcall[p].ret}) = 1

\* every process called while the lock was free: one True, the others False
C6_Witness ==
    /\ \A p \in Procs : lcall[p].op = "lock" /\ lcall[p].free
    /\ \E p \in Procs : lcall[p].ret
    /\ \E p \in Procs : ~lcall[p].ret /\ lcall[p].before # NULL

\* C7: lock_database on a held lock whose row was modified fewer than Lease
\* seconds ago returns False and leaves the token; on a lock held for more
\* than Lease seconds it returns True and installs the caller's token.
\* (SpecLock)
C7_Lease ==
    \A p \in Procs :
        (lcall[p].op = "lock" /\ lcall[p].before # NULL) =>
            /\ lcall[p].age = "young" =>
                 (~lcall[p].ret /\ lcall[p].after = lcall[p].before)
            /\ lcall[p].age = "old" =>
                 (lcall[p].ret /\ lcall[p].after = Token(p))

\* one call was refused on a young lock, another seized an old one
C7_Witness ==
    \E p \in Procs : \E q \in Procs :
        /\ lcall[p].op = "lock" /\ lcall[p].before # NULL
        /\ lcall[p].age = "young" /\ ~lcall[p].ret
        /\ lcall[q].op = "lock" /\ lcall[q].before # NULL
        /\ lcall[q].before # Token(q)
        /\ lcall[q].age = "old" /\ lcall[q].ret

\* C8: unlock_database clears the lock only when the caller's own token
\* holds it; called on another process's token it leaves the row.  (SpecLock)
C8_OwnTokenOnly ==
    \A p \in Procs :
        (lcall[p].op = "unlock" /\ lcall[p].before # Token(p)) =>
            lcall[p].after = lcall[p].before

\* C9: the fetch workers of two processes never hold the same proxy in
\* their pipes.  (SpecFetch)
C9_QueuesDisjoint ==
    \A p \in Procs : \A q \in Procs :
        p # q => Range(fQueue[p]) \cap Range(fQueue[q]) = {}

\* C10: a queue worker sets the interrupt exactly when it has seen four
\* consecutive failed storage attempts: it never sees a fifth, and it has
\* seen four when it sets the interrupt.  (SpecWorkers)
C10_FourFailures ==
    \A w \in BufWorkers :
        /\ wErr[w] <= MaxErrors
        /\ w \in qSetter => wErr[w] = MaxErrors

C12_QueueReleased ==
    \A p \in Procs : fpc[p] = "dead" => fQueue[p] = <<>>

\* C13: when a tester that holds its claim on a proxy has written the result
\* back, the stored status of the proxy is the status of the last executed
\* probe.  (SpecTest)
C13_LastProbeStored ==
    [][\A t \in Testers :
         (tpc[t] = "write" /\ tpc'[t] = "scan" /\ Holds(t)) =>
             LET res == FinalResults(tres[t])
             IN db'[tobj[t].id].status = res[Len(res)]]_vars

\* C14: no tester thread is started unless validate() returned true for
\* every probe class of the planned test cycle, and a process that ended
\* because a validate() failed at startup ended with exit code 1.
\* (SpecStart)
C14_ValidatedStart ==
    LET ok == ValidateResponses(PlanTestCycle(testPogo, testAnonymity), valid)
    IN /\ launched > 0 => ok
       /\ (apc = "exited" /\ ~ok) => exitCode = 1

\* C15: a failure confined to one proxy leaves the tester thread running and
\* the interrupt alone: no step of a tester that is executing probes or
\* writing a result back sets the manager's interrupt or ends the thread.
\* (SpecTest)
C15_FailureConfined ==
    [][\A t \in Testers :
         tpc[t] \in {"tests", "write"} =>
             /\ tpc'[t] # "done"
             /\ (tpc'[t] # tpc[t] => mgrInterrupt' = mgrInterrupt)]_vars

\* C16: every scraper thread ends, whatever the outcomes of its requests and
\* whether or not the interrupt is ever set.  (FairSpecRequest)
C16_RequestTerminates ==
    <>(\A s \in Scrapers : rpc[s] = "ended")

C18_UniqueEndpoint ==
    \A x \in table : \A y \in table :
        (x.ip = y.ip /\ x.port = y.port) => x = y

\* every (ip, port) has its row, and the row that existed before has been
\* written again by a conflicting insert
C18_Witness ==
    /\ Cardinality(table) = NumIPs * NumPorts
    /\ \E x \in table :
         /\ x.status = OK
         /\ x.modified = StartTime
         /\ x.protocol = SOCKS5

\* C19: parse_proxy of the string url() made of a Proxy returns the
\* protocol, ip, port (as its decimal text), username and password of that
\* Proxy.  (SpecRoundTrip)
C19_RoundTrip ==
    upc = "parsed" =>
        /\ parsed.ok
        /\ parsed.protocol = precord.protocol
        /\ parsed.ip = precord.ip
        /\ parsed.port = <<ToString(precord.port)>>
        /\ parsed.username = precord.username
        /\ parsed.password = precord.password

\* C20: the ProxyTest a probe saves for a response with HTTP status 403 or
\* 409 has status BANNED, whatever the body.  (SpecProbes)
C20_BannedStatus ==
    (ptest.saved /\ resp.raised = "none" /\ resp.code \in {403, 409})
        => ptest.status = BANNED


\* C21: once a queue worker has raised the interrupt after repeated storage
\* failures, a tester at its loop head observes it: no tester claims another
\* proxy for testing after that.  (SpecInterrupt)
C21_TestersObserve ==
    [][\A t \in Testers :
         (qSetter # {} /\ tpc[t] = "scan") => tpc'[t] # "lock"]_vars


\* C22: for a configured refresh interval of r > 0 minutes the interval the
\* loop of work uses is max(r, 15) minutes, and the first re-harvest comes
\* at the first turn of the loop after that many minutes.  (SpecRefresh)
C22_EffectiveInterval ==
    (gpc = "work" /\ argMinutes # NotGiven) =>
        LET minutes == IF argMinutes < MinRefresh THEN MinRefresh
                       ELSE argMinutes
        IN /\ refreshInterval = minutes * MinuteSeconds
           /\ gap # 0 => /\ gap > minutes * MinuteSeconds
                         /\ gap <= minutes * MinuteSeconds + LoopSleep


\* C23: with the force flag off every result of execute_tests but the last
\* has status OK and no probe placed after a probe with a result other than
\* OK is run; with the force flag on and the interrupt not set every probe
\* of the cycle is run, in the planned order.  (SpecIteration)
C23_ShortCircuit ==
    /\ ~xforce =>
         /\ \A i \in 1..(Len(xres) - 1) : xres[i].status = OK
         /\ \A i \in 1..Len(xres) : \A m \in 1..Len(xplan) :
              (xres[i].status # OK /\ xres[i].info = xplan[m])
                  => \A k \in 1..Len(xran) : xran[k] <= m
    /\ (xforce /\ ~xint /\ xpc = "done") =>
         /\ Len(xran) = Len(xplan)
         /\ \A k \in 1..Len(xran) : xran[k] = k

\* force off, three probes planned: the first passed, the second timed out
\* and the third was not run
C23_Witness ==
    /\ xpc = "done"
    /\ ~xforce
    /\ ~xint
    /\ Len(xplan) > 2
    /\ Len(xran) = 2
    /\ Len(xres) = 2
    /\ xres[1].status = OK
    /\ xres[2].status = TIMEOUT

\* C24: execute_tests never returns an empty list: when no probe produced a
\* result it returns the one placeholder (ERROR, "Not tested"), otherwise
\* the results of the probes and no placeholder.  (SpecIteration)
C24_Placeholder ==
    /\ [](xpc = "tests" => \A i \in 1..Len(xres) : xres[i] # NotTested)
    /\ [][(xpc = "tests" /\ xpc' = "done") =>
            /\ xres' # <<>>
            /\ \/ xres' = xres
               \/ \E st \in ProbeStatuses :
                    xres' = Append(xres, [info |-> xplan[xidx'],
                                          status |-> st])
               \/ xres = <<>> /\ xres' = <<NotTested>>]_vars

\* two probes planned, both returned nothing: the placeholder is the result
C24_Witness ==
    /\ xpc = "done"
    /\ ~xint
    /\ Len(xplan) = 2
    /\ Len(xran) = 2
    /\ xres = <<NotTested>>

\* C25: the claimed proxy is deleted, and no probe run on it, exactly when
\* it is older than the cleanup period, has at least the configured number
\* of tests in the period and a fail ratio above the configured one (no
\* storage call failing); at the configured ratio it is tested.
\* (SpecIteration)
C25_DeletedIff ==
    LET due == /\ xage > CleanupPeriod
               /\ xtests >= MinTests
               /\ xfails * 100 > xratio * xtests
    IN /\ xpc = "deleted" => (due /\ xran = <<>>)
       /\ (xpc \in {"tests", "done"} /\ ~xfault) => ~due


\* C26: a probe whose request ran into the connect deadline or the read
\* deadline returns a ProxyTest with status TIMEOUT.  (SpecProbes)
C26_TimeoutStatus ==
    ((ptest.saved \/ ptest.raised)
        /\ resp.raised \in {"ConnectTimeout", "ReadTimeout", "socket.timeout"})
        => (ptest.saved /\ ptest.status = TIMEOUT)

\* C27: the ProxyTest a probe's run returns has one of the statuses OK,
\* TIMEOUT, ERROR, BANNED, never UNKNOWN or TESTING.  (SpecProbes)
C27_TerminalStatus ==
    ptest.saved => ptest.status \in {OK, TIMEOUT, ERROR, BANNED}


\* C28: a write that takes the status of a proxy out of TESTING leaves its
\* modified newer than the value the row had before it was claimed, which
\* is the modified of the snapshot the claiming tester holds.  (SpecTest)
C28_ModifiedAdvances ==
    [][\A t \in Testers :
         LET p == tobj[t].id IN
         (Holds(t) /\ p # NoProxy
            /\ db[p].status = TESTING /\ db'[p].status # TESTING)
             => db'[p].modified > tobj[t].modified]_vars


\* C29: a flush of a buffered queue worker that fails leaves every item of
\* the attempt, the backlog and what was drained from the pipe, in the
\* worker's backlog.  (SpecFlush)
C29_BacklogKept ==
    [][\A w \in BufWorkers :
         (budget' < budget
            /\ \/ wErr'[w] = wErr[w] + 1
               \/ (wPc[w] = "final" /\ wPc'[w] = "done"))
             => wBacklog'[w] = wBacklog[w] \o wQueue[w]]_vars

\* C30: the distributed lock is not left with the token of a process whose
\* fetch worker is outside the try block of fill_queue and whose cleanup
\* worker is outside its pass.  (SpecWorkers)
C30_LockReleased ==
    \A p \in Procs :
        (fpc[p] # "fill" /\ cpc[p] # "pass") => read_lock # Token(p)


\* the items of s are in the order of their put
InPutOrder(s) == \A i \in 1..(Len(s) - 1) : s[i] < s[i + 1]

\* C31: the fetch-for-test pipe never holds more than 2 x testers items,
\* the update-proxy pipe 10 x testers, the proxytest pipe 50 x testers, and
\* what a pipe holds and what its consumer took from it are in the order of
\* the puts.  (SpecPipes)
C31_BoundedFifo ==
    /\ pkind = "fetch" => Len(pq) <= 2 * pn
    /\ pkind = "update" => Len(pq) <= 10 * pn
    /\ pkind = "proxytest" => Len(pq) <= 50 * pn
    /\ InPutOrder(pq)
    /\ IF pkind = "fetch" THEN InPutOrder(pstored \o pq)
       ELSE InPutOrder(pbacklog \o pq)

\* the proxytest pipe of a pool of two testers is full and the producer has
\* more to put
C31_Witness ==
    /\ pkind = "proxytest"
    /\ pn = 2
    /\ Len(pq) = 100
    /\ pnext < plimit


\* C32: the ProxyTests of the proxytest pipe reach storage in the order
\* they were produced: what is stored is in put order, and every committed
\* flush adds the backlog and then the newer items of the pipe behind what
\* was stored before.  (SpecPipes)
C32_StoredInOrder ==
    /\ [](pkind = "proxytest" => InPutOrder(pstored))
    /\ [][(pkind = "proxytest" /\ pstored' # pstored) =>
            /\ \A i \in 1..Len(pstored) : pstored'[i] = pstored[i]
            /\ \A i \in 1..Len(pstored) : \A j \in (Len(pstored) + 1)..Len(pstored') :
                 pstored[i] < pstored'[j]
            /\ Len(pstored') = Len(pstored) + Len(pbacklog) + Len(pq)]_vars

\* earlier ProxyTests are stored, a flush has failed and left its items in
\* the backlog, and a newer item has arrived in the pipe
C32_Witness ==
    /\ pkind = "proxytest"
    /\ pfaults < MaxFaults
    /\ pstored # <<>>
    /\ pbacklog # <<>>
    /\ pq # <<>>


C34_SamePredicate ==
    vgot # NoProxy => (NeedScan(vgot) /\ InFilter(vgot, vfilter))

\* C34 (amended): the proxy get_for_scan returned has a status other than
\* TESTING, a protocol in the filter when one is given, and either status
\* UNKNOWN or a modified older than the scan interval; every proxy
\* need_scan lists is one get_for_scan may return.  (SpecScan)
C34_UnknownOrDue ==
    /\ vgot # NoProxy =>
         /\ db[vgot].status # TESTING
         /\ vfilter # {} => vproto[vgot] \in vfilter
         /\ \/ db[vgot].status = UNKNOWN
            \/ db[vgot].modified < now - ScanAge
    /\ \A i \in 1..Len(vlist) :
         /\ ForScan(vlist[i])
         /\ vfilter # {} => vproto[vlist[i]] \in vfilter

\* with a filter given get_for_scan returned a row of status UNKNOWN that
\* was modified just now, which need_scan, listing the other row, leaves out
C34_Witness ==
    /\ vfilter # {}
    /\ vgot # NoProxy
    /\ db[vgot].status = UNKNOWN
    /\ db[vgot].modified = StartTime
    /\ Len(vlist) = 1
    /\ vlist[1] # vgot


\* C35: every proxy in a fetch-for-test pipe, where get_proxy hands it to
\* a tester, has status TESTING in storage: the lock is written before the
\* proxy becomes visible.  (SpecFetch)
C35_LockedBeforeVisible ==
    \A p \in Procs : \A x \in Range(fQueue[p]) : db[x].status = TESTING


\* C36: a tester that is running the probes on a proxy, or writing the
\* counters of a proxy back, holds that proxy by a lock_for_testing call of
\* its own that returned 1 in this iteration.  (SpecTest)
C36_ProbesOnlyOnClaim ==
    \A t \in Testers : tpc[t] \in {"tests", "write"} => Holds(t)


\* C37: no counter increment is lost: no step makes the stored test_count
\* of a proxy smaller.  (SpecTest)
C37_CountKept ==
    [][\A p \in Proxies : db'[p].test_count >= db[p].test_count]_vars


\* C38: for every size of the tester pool the threshold the update-proxy
\* and the proxytest workers flush at, interrupted or not, is below the
\* capacity of the pipe, and a pipe that is full while its worker is in its
\* loop gets room again.  (FairSpecPipes)
C38_FullPipeFlushed ==
    /\ [](pkind # "fetch" =>
            \A interrupted \in BOOLEAN :
                PipeThreshold(pkind, pn, interrupted) < Maxsize(pkind, pn))
    /\ (pkind # "fetch" /\ ppc = "run" /\ Len(pq) = Maxsize(pkind, pn))
           ~> (Len(pq) < Maxsize(pkind, pn))

\* the update-proxy pipe of one tester was filled to its capacity of ten,
\* one more than the threshold, and one flush has stored the ten items with
\* no interrupt set
C38_Witness ==
    /\ pkind = "update"
    /\ pn = 1
    /\ ~pint
    /\ pnext = Maxsize(pkind, pn)
    /\ Len(pstored) = Maxsize(pkind, pn)
    /\ pq = <<>>


\* the numbers of the items a producer puts
Items == 1..(Maxsize("proxytest", MaxPool) + MaxExtra)

\* item k is in the pipe or in the backlog of the worker
Waiting(k) == k \in Range(pq) \cup Range(pbacklog)

\* item k has been written to storage
Stored(k) == k \in Range(pstored)

C40_TestingNotDeleted ==
    \A p \in Proxies : dtable[p].deleted => dtable[p].status # TESTING

====
